---- MODULE Spec2Model ----
(***************************************************************************)
(* A model of the synthetic topology generation engine of the mock Meraki  *)
(* API: the three generators (seed_data/generators), the three topology    *)
(* assemblers (seed_data/topologies), the topology validator               *)
(* (scripts/validate_topologies.py) and the request handler of the API     *)
(* (src/app.py, src/middleware, src/handlers, src/db).                     *)
(*                                                                         *)
(* Representation.                                                         *)
(*  - Python dicts are records, lists are sequences, None is the value     *)
(*    None; a key a dict does not carry is a field the record lacks.       *)
(*  - Text is text: hostnames, MAC addresses, serials and device-type      *)
(*    predictions are strings built and searched as the code does.         *)
(*  - A dotted IPv4 address "a.b.c.d" is the tuple <<a, b, c, d>> and a    *)
(*    CIDR "a.b.c.d/m" the record [ip |-> <<a,b,c,d>>, mask |-> m]; the    *)
(*    code's split/rsplit on '.' and '/' are the tuple's projections.      *)
(*  - The module-global random stream of Python's `random` is the field g  *)
(*    of the running call's locals: the position in the stream the seed    *)
(*    selected.  The Mersenne Twister is replaced by a hash of that        *)
(*    position: what the model keeps is that seeding fixes the stream and  *)
(*    that every draw advances it.                                         *)
(*  - datetime.utcnow() reads the variable clock (minutes).                *)
(*  - Byte counts above 2^31 are pairs [k, r] standing for 1000*k + r.     *)
(***************************************************************************)
EXTENDS Integers, Sequences, FiniteSets, TLC

VARIABLES
    clock,      \* wall clock read by datetime.utcnow(), in minutes
    dgen,       \* locals of one generate_devices_for_network call
    cgen,       \* locals of one generate_clients_for_network call
    asm,        \* locals of one topology assembler call
    outcomes,   \* what the finished assembler calls returned or raised, in order
    val,        \* locals of one run of scripts/validate_topologies.py
    api,        \* the Lambda container of src/app.py and its last exchange
    db          \* the secret store and the DynamoDB tables

vars == <<clock, dgen, cgen, asm, outcomes, val, api, db>>

\* Bounds of the model.
MaxSeed == 1            \* seeds 0..MaxSeed
MaxClockSkew == 1       \* clock readings ClockBase..ClockBase + MaxClockSkew
MaxPerCategory == 2     \* device entries / counts per category, 0..MaxPerCategory
LargeSwitchCount == 255 \* a switch count that takes the device index past 254
MaxClients == 5         \* clients per call in the small calls
MaxCalls == 2           \* assembler calls in one run of the process
ManyClients == 252      \* clients of a call whose client index passes 250

Seeds == 0..MaxSeed
ClockBase == 200000
Clocks == ClockBase..(ClockBase + MaxClockSkew)

None == "None"
Idle == [pc |-> "idle"]

(***************************************************************************)
(* Sequencing.  Let(e, F) is F applied to the value of e, with e evaluated *)
(* once: the statement `y = e` followed by the code F that reads y.        *)
(***************************************************************************)
Let(e, F(_)) == CHOOSE r \in { F(y) : y \in {e} } : TRUE

(***************************************************************************)
(* Text helpers (str.upper, str.lower, `in`, format specs).                *)
(***************************************************************************)
UpperAlpha == "ABCDEFGHIJKLMNOPQRSTUVWXYZ"
LowerAlpha == "abcdefghijklmnopqrstuvwxyz"
SerialAlphabet == "ABCDEFGHIJKLMNOPQRSTUVWXYZ0123456789"
HexDigits == "0123456789abcdef"
DecDigits == "0123456789"

CharAt(s, i) == SubSeq(s, i, i)

\* p in s
Contains(s, p) ==
    \E i \in 1..(Len(s) - Len(p) + 1) : SubSeq(s, i, i + Len(p) - 1) = p

\* s.startswith(p)
StartsWith(s, p) == Len(s) >= Len(p) /\ SubSeq(s, 1, Len(p)) = p

\* The character-to-character tables of str.lower and str.upper.
LowerOf == [c \in {CharAt(UpperAlpha, i) : i \in 1..26} |-> CharAt(LowerAlpha, CHOOSE i \in 1..26 : CharAt(UpperAlpha, i) = c)]
UpperOf == [c \in {CharAt(LowerAlpha, i) : i \in 1..26} |-> CharAt(UpperAlpha, CHOOSE i \in 1..26 : CharAt(LowerAlpha, i) = c)]

\* s with every character c in the table's domain replaced by table[c]
RECURSIVE MapStr(_, _)
MapStr(text, table) ==
    Let(text, LAMBDA s :
    IF Len(s) = 0 THEN ""
    ELSE IF Len(s) = 1 THEN (IF s \in DOMAIN table THEN table[s] ELSE s)
    ELSE MapStr(SubSeq(s, 1, Len(s) \div 2), table) \o MapStr(SubSeq(s, (Len(s) \div 2) + 1, Len(s)), table))

Lower(s) == MapStr(s, LowerOf)
Upper(s) == MapStr(s, UpperOf)

\* s.replace(c, "") for a character c
Remove(s, c) == MapStr(s, [x \in {c} |-> ""])

\* f"{n:02d}", f"{n:03d}"
Pad2(n) == IF n < 10 THEN "0" \o ToString(n) ELSE ToString(n)
Pad3(n) == IF n < 10 THEN "00" \o ToString(n)
           ELSE IF n < 100 THEN "0" \o ToString(n) ELSE ToString(n)

\* f"{b:02x}"
Hex2(b) == CharAt(HexDigits, (b \div 16) + 1) \o CharAt(HexDigits, (b % 16) + 1)

\* d.get(key, default)
Get(d, key, default) == IF key \in DOMAIN d THEN d[key] ELSE default

\* any(p in s for p in patterns)
AnyIn(s, patterns) == \E k \in 1..Len(patterns) : Contains(s, patterns[k])

(***************************************************************************)
(* The `random` module.  The stream's state g is the seed's stream and the *)
(* number of values drawn from it so far; the value drawn at g is Mix(g).  *)
(* The ...At operators give the value drawn at a state; the others take    *)
(* the state before the call and return [v |-> the value, g |-> the state  *)
(* after].                                                                 *)
(***************************************************************************)
\* random.seed(seed): the start of the seed's stream
SeedRng(seed) == seed * 1000000

\* The pseudo-random word at state g, 0 <= Mix(g) < 32749.
Mix(g) ==
    LET x == g % 32749
        y == (g \div 32749) % 32749
    IN  (((x * x) % 32749) * 31 + x * 75 + ((y * y) % 32749) * 17 + y * 101 + 12345) % 32749

NextRng(g) == g + 1

RandIntAt(g, a, b) == a + ((Mix(g) * 65003) % (b - a + 1))
RandomAt(g) == Mix(g) % 100
ChoiceAt(g, seq) == seq[(Mix(g) % Len(seq)) + 1]

RECURSIVE ChoicesAt(_, _, _)
ChoicesAt(g, population, k) ==
    IF k = 0 THEN ""
    ELSE CharAt(population, (Mix(g) % Len(population)) + 1) \o ChoicesAt(NextRng(g), population, k - 1)

\* random.randint(a, b): a <= v <= b
RandInt(g, a, b) == [v |-> RandIntAt(g, a, b), g |-> NextRng(g)]

\* random.random(), in hundredths: v / 100 is in [0, 1)
Random(g) == [v |-> RandomAt(g), g |-> NextRng(g)]

\* random.choice(seq)
Choice(g, seq) == [v |-> ChoiceAt(g, seq), g |-> NextRng(g)]

\* ''.join(random.choices(population, k=k)) for a population of characters
ChoicesStr(g, population, k) == [v |-> ChoicesAt(g, population, k), g |-> g + k]

(***************************************************************************)
(* seed_data/generators/device_generator.py                                *)
(***************************************************************************)
MERAKI_OUI == "00:18:0A"

\* DEVICE_MODELS: serial prefix and, per model, the firmware list (the only
\* model attribute the generator reads).
DEVICE_MODELS ==
    [appliance |->
        [prefix |-> "Q2",
         models |-> ("MX450" :> <<"MX 18.107", "MX 18.106", "MX 17.12">>)
                 @@ ("MX250" :> <<"MX 18.107", "MX 18.106">>)
                 @@ ("MX85" :> <<"MX 18.107", "MX 18.106", "MX 17.12">>)
                 @@ ("MX75" :> <<"MX 18.107", "MX 18.106">>)
                 @@ ("MX68" :> <<"MX 18.107", "MX 18.106", "MX 17.12">>)
                 @@ ("MX68W" :> <<"MX 18.107", "MX 18.106">>)
                 @@ ("MX67" :> <<"MX 18.107", "MX 18.106">>)
                 @@ ("MX67C" :> <<"MX 18.107", "MX 18.106">>)],
     switch |->
        [prefix |-> "Q2",
         models |-> ("MS425-32" :> <<"MS 15.21", "MS 15.20", "MS 14.33">>)
                 @@ ("MS350-48" :> <<"MS 15.21", "MS 15.20">>)
                 @@ ("MS250-48" :> <<"MS 15.21", "MS 15.20", "MS 14.33">>)
                 @@ ("MS225-48" :> <<"MS 15.21", "MS 15.20">>)
                 @@ ("MS225-24" :> <<"MS 15.21", "MS 15.20">>)
                 @@ ("MS120-24" :> <<"MS 15.21", "MS 15.20", "MS 14.33">>)
                 @@ ("MS120-8" :> <<"MS 15.21", "MS 15.20">>)],
     wireless |->
        [prefix |-> "Q2",
         models |-> ("MR57" :> <<"MR 30.5", "MR 29.7", "MR 28.8">>)
                 @@ ("MR56" :> <<"MR 30.5", "MR 29.7">>)
                 @@ ("MR46" :> <<"MR 30.5", "MR 29.7", "MR 28.8">>)
                 @@ ("MR36" :> <<"MR 30.5", "MR 29.7">>)
                 @@ ("MR33" :> <<"MR 30.5", "MR 29.7", "MR 28.8">>)
                 @@ ("MR30H" :> <<"MR 30.5", "MR 29.7">>)],
     cellularGateway |->
        [prefix |-> "Q2",
         models |-> ("MG41" :> <<"MG 1.24.2", "MG 1.23.1">>)
                 @@ ("MG21" :> <<"MG 1.24.2", "MG 1.23.1">>)],
     sensor |->
        [prefix |-> "Q3",
         models |-> ("MT10" :> <<"MT 1.0.3">>)
                 @@ ("MT12" :> <<"MT 1.0.3">>)
                 @@ ("MT14" :> <<"MT 1.0.3">>)],
     camera |->
        [prefix |-> "Q2",
         models |-> ("MV12W" :> <<"MV 4.18">>)
                 @@ ("MV22" :> <<"MV 4.18">>)
                 @@ ("MV72" :> <<"MV 4.18">>)]]

\* US_LOCATIONS; lat and lng in units of 0.0001 degree.
US_LOCATIONS == <<
    [city |-> "San Francisco", state |-> "CA", lat |-> 377749, lng |-> -1224194, tz |-> "America/Los_Angeles"],
    [city |-> "New York", state |-> "NY", lat |-> 407128, lng |-> -740060, tz |-> "America/New_York"],
    [city |-> "Chicago", state |-> "IL", lat |-> 418781, lng |-> -876298, tz |-> "America/Chicago"],
    [city |-> "Los Angeles", state |-> "CA", lat |-> 340522, lng |-> -1182437, tz |-> "America/Los_Angeles"],
    [city |-> "Seattle", state |-> "WA", lat |-> 476062, lng |-> -1223321, tz |-> "America/Los_Angeles"],
    [city |-> "Austin", state |-> "TX", lat |-> 302672, lng |-> -977431, tz |-> "America/Chicago"],
    [city |-> "Denver", state |-> "CO", lat |-> 397392, lng |-> -1049903, tz |-> "America/Denver"],
    [city |-> "Boston", state |-> "MA", lat |-> 423601, lng |-> -710589, tz |-> "America/New_York"],
    [city |-> "Atlanta", state |-> "GA", lat |-> 337490, lng |-> -843880, tz |-> "America/New_York"],
    [city |-> "Miami", state |-> "FL", lat |-> 257617, lng |-> -801918, tz |-> "America/New_York"],
    [city |-> "Dallas", state |-> "TX", lat |-> 327767, lng |-> -967970, tz |-> "America/Chicago"],
    [city |-> "Phoenix", state |-> "AZ", lat |-> 334484, lng |-> -1120740, tz |-> "America/Phoenix"],
    [city |-> "Portland", state |-> "OR", lat |-> 455152, lng |-> -1226784, tz |-> "America/Los_Angeles"],
    [city |-> "Minneapolis", state |-> "MN", lat |-> 449778, lng |-> -932650, tz |-> "America/Chicago"],
    [city |-> "Detroit", state |-> "MI", lat |-> 423314, lng |-> -830458, tz |-> "America/Detroit"],
    [city |-> "Philadelphia", state |-> "PA", lat |-> 399526, lng |-> -751652, tz |-> "America/New_York"],
    [city |-> "San Diego", state |-> "CA", lat |-> 327157, lng |-> -1171611, tz |-> "America/Los_Angeles"],
    [city |-> "Houston", state |-> "TX", lat |-> 297604, lng |-> -953698, tz |-> "America/Chicago"],
    [city |-> "Charlotte", state |-> "NC", lat |-> 352271, lng |-> -808431, tz |-> "America/New_York"],
    [city |-> "Salt Lake City", state |-> "UT", lat |-> 407608, lng |-> -1118910, tz |-> "America/Denver"] >>

\* DeviceGenerator._generate_serial
generate_serial(g, prefix) ==
    Let(ChoicesStr(g, SerialAlphabet, 2), LAMBDA part1 :
    Let(ChoicesStr(part1.g, SerialAlphabet, 4), LAMBDA part2 :
    Let(ChoicesStr(part2.g, SerialAlphabet, 4), LAMBDA part3 :
    [v |-> prefix \o part1.v \o "-" \o part2.v \o "-" \o part3.v, g |-> part3.g])))

\* ':'.join(f'{random.randint(0, 255):02x}' for _ in range(3))
mac_suffix(g) ==
    Let(RandInt(g, 0, 255), LAMBDA b1 :
    Let(RandInt(b1.g, 0, 255), LAMBDA b2 :
    Let(RandInt(b2.g, 0, 255), LAMBDA b3 :
    [v |-> Hex2(b1.v) \o ":" \o Hex2(b2.v) \o ":" \o Hex2(b3.v), g |-> b3.g])))

\* DeviceGenerator._generate_mac
device_generate_mac(g) ==
    Let(mac_suffix(g), LAMBDA suffix : [v |-> MERAKI_OUI \o ":" \o suffix.v, g |-> suffix.g])

\* A LAN address whose third octet advances every 256 (not 254) devices.
lan_ip_per_256(network_octet, device_index) ==
    <<10, network_octet, device_index \div 256, (device_index % 254) + 1>>

\* DeviceGenerator._generate_lan_ip
generate_lan_ip(network_octet, device_index) ==
    LET third == device_index \div 254
        fourth == (device_index % 254) + 1
    IN  <<10, network_octet, third, fourth>>

\* DeviceGenerator._generate_wan_ip
generate_wan_ip(g) ==
    Let(RandInt(g, 50, 200), LAMBDA o1 :
    Let(RandInt(o1.g, 1, 254), LAMBDA o2 :
    Let(RandInt(o2.g, 1, 254), LAMBDA o3 :
    Let(RandInt(o3.g, 1, 254), LAMBDA o4 :
    [v |-> <<o1.v, o2.v, o3.v, o4.v>>, g |-> o4.g]))))

\* int(s) of a string of decimal digits, kept as text: leading zeros go.
RECURSIVE IntOfDigits(_)
IntOfDigits(s) ==
    IF Len(s) > 1 /\ CharAt(s, 1) = "0" THEN IntOfDigits(SubSeq(s, 2, Len(s))) ELSE s

\* DEVICE_MODELS.get(product_type, {}).get("models", {}).get(model, {}).get("firmware", ["unknown"])
model_firmware(product_type, model) ==
    IF product_type \in DOMAIN DEVICE_MODELS /\ model \in DOMAIN DEVICE_MODELS[product_type].models
    THEN DEVICE_MODELS[product_type].models[model]
    ELSE <<"unknown">>

\* DEVICE_MODELS.get(product_type, {}).get("prefix", "Q2")
model_prefix(product_type) ==
    IF product_type \in DOMAIN DEVICE_MODELS THEN DEVICE_MODELS[product_type].prefix ELSE "Q2"

\* The WAN addresses of an appliance and the IMEI of a cellular gateway.
device_extras(g, device) ==
    IF device.productType = "appliance"
    THEN Let(generate_wan_ip(g), LAMBDA wan1 :
         Let(Random(wan1.g), LAMBDA second :
         IF second.v > 70
         THEN Let(generate_wan_ip(second.g), LAMBDA wan2 :
              [v |-> device @@ [wan1Ip |-> wan1.v, wan2Ip |-> wan2.v], g |-> wan2.g])
         ELSE [v |-> device @@ [wan1Ip |-> wan1.v], g |-> second.g]))
    ELSE IF device.productType = "cellularGateway"
    THEN Let(ChoicesStr(g, DecDigits, 15), LAMBDA imei :
         [v |-> device @@ [imei |-> IntOfDigits(imei.v)], g |-> imei.g])
    ELSE [v |-> device, g |-> g]

\* DeviceGenerator.generate_device
generate_device(g, now, network_id, organization_id, product_type, model, name, location, network_octet, device_index, tags) ==
    Let(Choice(g, model_firmware(product_type, model)), LAMBDA firmware :
    Let(generate_serial(firmware.g, model_prefix(product_type)), LAMBDA serial :
    Let(device_generate_mac(serial.g), LAMBDA mac :
    Let(RandInt(mac.g, -100, 100), LAMBDA dlat :
    Let(RandInt(dlat.g, -100, 100), LAMBDA dlng :
    Let(RandInt(dlng.g, 100, 9999), LAMBDA street :
    Let(RandInt(street.g, 1, 72), LAMBDA hours :
    device_extras(hours.g,
        [serial |-> serial.v,
         name |-> name,
         mac |-> mac.v,
         networkId |-> network_id,
         organizationId |-> organization_id,
         model |-> model,
         productType |-> product_type,
         firmware |-> firmware.v,
         lanIp |-> generate_lan_ip(network_octet, device_index),
         tags |-> tags,
         lat |-> Get(location, "lat", 377749) + dlat.v,
         lng |-> Get(location, "lng", -1224194) + dlng.v,
         address |-> ToString(street.v) \o " " \o Get(location, "city", "Unknown") \o " St",
         notes |-> None,
         url |-> "https://mock.meraki.com/devices/" \o serial.v \o "/manage",
         configurationUpdatedAt |-> now - 60 * hours.v,
         details |-> <<>>]))))))))

\* "online" if random.random() < 0.95 else random.choice([...])
draw_status(g) ==
    Let(Random(g), LAMBDA r :
    IF r.v < 95 THEN [v |-> "online", g |-> r.g]
    ELSE Choice(r.g, <<"alerting", "offline", "dormant">>))

\* DeviceGenerator.generate_device_availability
generate_device_availability(g, device) ==
    Let(draw_status(g), LAMBDA status :
    [v |-> [serial |-> device.serial,
            name |-> device.name,
            mac |-> device.mac,
            network |-> [id |-> device.networkId],
            productType |-> device.productType,
            status |-> status.v,
            tags |-> Get(device, "tags", <<>>)],
     g |-> status.g])

\* The power supply of an MS3xx / MS4xx switch (lines 291-309).
status_components(g, device, device_status) ==
    LET model == Get(device, "model", "")
    IN  IF device.productType = "switch" /\ (StartsWith(model, "MS4") \/ StartsWith(model, "MS3"))
        THEN Let(generate_serial(g, "Q2"), LAMBDA psu :
             [v |-> device_status @@
                    [components |->
                        [powerSupplies |-> <<
                            [slot |-> 0,
                             serial |-> psu.v,
                             model |-> IF Contains(model, "MS3") THEN "PWR-MS320-250WAC" ELSE "PWR-MS425-400WAC",
                             status |-> "powering",
                             poe |-> [unit |-> "watts",
                                      maximum |-> IF Contains(model, "MS3") THEN 370 ELSE 740]] >>]],
              g |-> psu.g])
        ELSE [v |-> device_status, g |-> g]

\* timedelta(minutes=randint(1, 5)) / (minutes=randint(5, 15)) / (hours=randint(1, 72))
report_age(g, status) ==
    IF status = "online" THEN RandInt(g, 1, 5)
    ELSE IF status = "alerting" THEN RandInt(g, 5, 15)
    ELSE Let(RandInt(g, 1, 72), LAMBDA h : [v |-> 60 * h.v, g |-> h.g])

\* DeviceGenerator.generate_device_status; status = None draws one.
generate_device_status(g, now, device, status_arg) ==
    Let(IF status_arg = None THEN draw_status(g) ELSE [v |-> status_arg, g |-> g], LAMBDA status :
    Let(report_age(status.g, status.v), LAMBDA ago :
    \* the default of device.get("wan1Ip", ...) is evaluated either way
    Let(generate_wan_ip(ago.g), LAMBDA wan :
    Let(RandInt(wan.g, 0, 999999), LAMBDA micro :
    Let(Random(micro.g), LAMBDA ip_type :
    status_components(ip_type.g, device,
        [name |-> device.name,
         serial |-> device.serial,
         mac |-> device.mac,
         publicIp |-> Get(device, "wan1Ip", wan.v),
         networkId |-> device.networkId,
         status |-> status.v,
         lastReportedAt |-> [t |-> now - ago.v, micro |-> micro.v],
         lanIp |-> Get(device, "lanIp", <<10, 0, 0, 1>>),
         gateway |-> SubSeq(Get(device, "lanIp", <<10, 0, 0, 1>>), 1, 3) \o <<1>>,
         ipType |-> IF ip_type.v < 70 THEN "dhcp" ELSE "static",
         primaryDns |-> <<8, 8, 8, 8>>,
         secondaryDns |-> <<8, 8, 4, 4>>,
         productType |-> device.productType,
         model |-> device.model,
         tags |-> Get(device, "tags", <<>>)]))))))

(***************************************************************************)
(* DeviceGenerator.generate_devices_for_network.  Its locals are a record  *)
(*   [pc, k, i, device_index, devices, availabilities, statuses, g, ...]   *)
(* where pc names the loop being run (appliances, switches, wireless,      *)
(* cellular, then done), k the position in that loop's config list and i   *)
(* the inner range(count) index.  One step is one pass through a loop      *)
(* body: one device, its availability and its status.                      *)
(***************************************************************************)
DevLoops == <<"appliances", "switches", "wireless", "cellular">>

DevLoopAfter(pc) ==
    CASE pc = "appliances" -> "switches"
      [] pc = "switches" -> "wireless"
      [] pc = "wireless" -> "cellular"
      [] OTHER -> "done"

\* config.get(<loop>, [])
DevConfigs(st) == Get(st.config, st.pc, <<>>)

\* Leave the loops that have nothing (more) to iterate over.
RECURSIVE DevSettle(_)
DevSettle(locals) ==
    Let(locals, LAMBDA st :
    IF st.pc = "done" THEN st
    ELSE IF st.k > Len(DevConfigs(st))
    THEN DevSettle([st EXCEPT !.pc = DevLoopAfter(st.pc), !.k = 1, !.i = 0])
    ELSE IF st.pc \in {"switches", "wireless"} /\ st.i >= Get(DevConfigs(st)[st.k], "count", 1)
    THEN DevSettle([st EXCEPT !.k = st.k + 1, !.i = 0])
    ELSE st)

\* The call generates its devices for one fixed network.
DevEnterFixedNetwork(g, now, network_id, organization_id, location, config, network_octet) ==
    DevSettle([pc |-> "appliances", k |-> 1, i |-> 0,
               device_index |-> 0,
               devices |-> <<>>, availabilities |-> <<>>, statuses |-> <<>>,
               g |-> g, now |-> now,
               network_id |-> "N_1", organization_id |-> organization_id,
               location |-> location, config |-> config,
               network_octet |-> network_octet])

\* The locals at the first loop body (lines 341-344).
DevEnter(g, now, network_id, organization_id, location, config, network_octet) ==
    DevSettle([pc |-> "appliances", k |-> 1, i |-> 0,
               device_index |-> 0,
               devices |-> <<>>, availabilities |-> <<>>, statuses |-> <<>>,
               g |-> g, now |-> now,
               network_id |-> network_id, organization_id |-> organization_id,
               location |-> location, config |-> config,
               network_octet |-> network_octet])

\* The index the next device is generated with.
DevNextIndex(st) == st.device_index + 1

\* The status record draws its own status.
DevAppendOwnStatus(st, product_type, model, name, tags) ==
    Let(generate_device(st.g, st.now, st.network_id, st.organization_id, product_type, model, name, st.location, st.network_octet, st.device_index, tags), LAMBDA device :
    Let(generate_device_availability(device.g, device.v), LAMBDA availability :
    Let(generate_device_status(availability.g, st.now, device.v, None), LAMBDA status :
    [st EXCEPT !.devices = Append(@, device.v),
               !.availabilities = Append(@, availability.v),
               !.statuses = Append(@, status.v),
               !.device_index = st.device_index + 1,
               !.g = status.g])))

\* devices.append(device); availability, status; device_index += 1
DevAppend(st, product_type, model, name, tags) ==
    Let(generate_device(st.g, st.now, st.network_id, st.organization_id, product_type, model, name, st.location, st.network_octet, st.device_index, tags), LAMBDA device :
    Let(generate_device_availability(device.g, device.v), LAMBDA availability :
    \* Pass the same status to ensure correlation
    Let(generate_device_status(availability.g, st.now, device.v, availability.v.status), LAMBDA status :
    [st EXCEPT !.devices = Append(@, device.v),
               !.availabilities = Append(@, availability.v),
               !.statuses = Append(@, status.v),
               !.device_index = DevNextIndex(st),
               !.g = status.g])))

\* One appliance (lines 347-367).
DevStepAppliance(st) ==
    LET c == DevConfigs(st)[st.k]
    IN  Let(DevAppend(st, "appliance", Get(c, "model", "MX68"), Get(c, "name", st.network_id \o "-MX"), Get(c, "tags", <<>>)), LAMBDA next :
        DevSettle([next EXCEPT !.k = st.k + 1]))

\* One switch (lines 370-390).
DevStepSwitch(st) ==
    LET c == DevConfigs(st)[st.k]
    IN  Let(DevAppend(st, "switch", Get(c, "model", "MS225-48"), Get(c, "name_prefix", "SW") \o "-" \o Pad2(st.i + 1), Get(c, "tags", <<>>)), LAMBDA next :
        DevSettle([next EXCEPT !.i = st.i + 1]))

\* One access point (lines 393-413).
DevStepWireless(st) ==
    LET c == DevConfigs(st)[st.k]
    IN  Let(DevAppend(st, "wireless", Get(c, "model", "MR46"), Get(c, "name_prefix", "AP") \o "-" \o Pad2(st.i + 1), Get(c, "tags", <<>>)), LAMBDA next :
        DevSettle([next EXCEPT !.i = st.i + 1]))

\* One cellular gateway (lines 416-434).
DevStepCellular(st) ==
    LET c == DevConfigs(st)[st.k]
    IN  Let(DevAppend(st, "cellularGateway", Get(c, "model", "MG41"), Get(c, "name", st.network_id \o "-MG"), Get(c, "tags", <<>>)), LAMBDA next :
        DevSettle([next EXCEPT !.k = st.k + 1]))

\* return devices, availabilities, statuses (line 436)
DevReturn(st) == <<st.devices, st.availabilities, st.statuses>>

\* One pass through the body of the loop the call is in.
DevStep(st) ==
    CASE st.pc = "appliances" -> DevStepAppliance(st)
      [] st.pc = "switches" -> DevStepSwitch(st)
      [] st.pc = "wireless" -> DevStepWireless(st)
      [] st.pc = "cellular" -> DevStepCellular(st)
      [] OTHER -> st

\* n passes in a row, halving n so that the evaluation stays shallow.
RECURSIVE DevRun(_, _)
DevRun(locals, n) ==
    IF n = 0 THEN locals
    ELSE IF n = 1 THEN Let(locals, LAMBDA st : DevStep(st))
    ELSE Let(DevRun(locals, n \div 2), LAMBDA half : DevRun(half, n - (n \div 2)))

\* The number of devices a list of config entries asks for.
RECURSIVE DevCount(_)
DevCount(entries) ==
    IF entries = <<>> THEN 0 ELSE Get(entries[1], "count", 1) + DevCount(Tail(entries))

\* DeviceGenerator.generate_devices_for_network, from call to return.
generate_devices_for_network(g, now, network_id, organization_id, location, config, network_octet) ==
    Let(DevRun(DevEnter(g, now, network_id, organization_id, location, config, network_octet),
               Len(Get(config, "appliances", <<>>)) + DevCount(Get(config, "switches", <<>>))
               + DevCount(Get(config, "wireless", <<>>)) + Len(Get(config, "cellular", <<>>))), LAMBDA st :
    [v |-> DevReturn(st), g |-> st.g])

(***************************************************************************)
(* seed_data/generators/client_generator.py                                *)
(*                                                                         *)
(* A byte count is the record [k, r] standing for 1000 * k + r bytes, and  *)
(* a range of byte counts is given by its two ends in units of 1000 bytes. *)
(* A VLAN id is held as its decimal text, which is what str() gives for    *)
(* the int of a template and for the text of a stored VLAN alike.          *)
(***************************************************************************)
CLIENT_MANUFACTURERS == <<
    [name |-> "Apple", oui |-> "3C:E0:72", weight |-> 15, os |-> <<"iOS 17", "iOS 16", "iOS 15">>],
    [name |-> "Apple", oui |-> "A4:83:E7", weight |-> 10, os |-> <<"macOS Sonoma", "macOS Ventura", "macOS Monterey">>],
    [name |-> "Samsung", oui |-> "84:25:DB", weight |-> 12, os |-> <<"Android 14", "Android 13", "Android 12">>],
    [name |-> "Dell", oui |-> "F8:B1:56", weight |-> 12, os |-> <<"Windows 11", "Windows 10">>],
    [name |-> "HP", oui |-> "10:B6:76", weight |-> 10, os |-> <<"Windows 11", "Windows 10">>],
    [name |-> "Lenovo", oui |-> "28:D2:44", weight |-> 10, os |-> <<"Windows 11", "Windows 10", "Chrome OS">>],
    [name |-> "Microsoft", oui |-> "28:18:78", weight |-> 5, os |-> <<"Windows 11", "Windows 10">>],
    [name |-> "Intel", oui |-> "A4:34:D9", weight |-> 3, os |-> <<"Windows 11", "Windows 10", "Linux">>],
    [name |-> "Google", oui |-> "F4:F5:D8", weight |-> 5, os |-> <<"Android 14", "Chrome OS">>],
    [name |-> "HP", oui |-> "C8:B5:AD", weight |-> 3, os |-> <<"Embedded">>],
    [name |-> "Epson", oui |-> "00:26:AB", weight |-> 2, os |-> <<"Embedded">>],
    [name |-> "Canon", oui |-> "00:1E:8F", weight |-> 2, os |-> <<"Embedded">>],
    [name |-> "Samsung", oui |-> "8C:79:F5", weight |-> 2, os |-> <<"Tizen OS">>],
    [name |-> "LG", oui |-> "A8:23:FE", weight |-> 2, os |-> <<"webOS">>],
    [name |-> "Cisco", oui |-> "00:1B:0D", weight |-> 2, os |-> <<"Cisco IP Phone">>],
    [name |-> "Zebra", oui |-> "00:A0:F8", weight |-> 3, os |-> <<"Android 11", "Android 10">>],
    [name |-> "Honeywell", oui |-> "00:40:84", weight |-> 2, os |-> <<"Android 10">>],
    [name |-> "Axis", oui |-> "00:40:8C", weight |-> 1, os |-> <<"Embedded">>],
    [name |-> "Texas Instruments", oui |-> "00:17:E5", weight |-> 1, os |-> <<"Embedded">>],
    [name |-> "GE", oui |-> "00:00:9A", weight |-> 1, os |-> <<"Embedded">>],
    [name |-> "Philips", oui |-> "00:1E:C0", weight |-> 1, os |-> <<"Embedded">>] >>

DEVICE_TYPE_BY_KEY ==
    ("Apple Mobile" :> "3C:E0:72") @@ ("Apple Mac" :> "A4:83:E7")
    @@ ("Samsung Mobile" :> "84:25:DB") @@ ("Samsung TV" :> "8C:79:F5")
    @@ ("HP Laptop" :> "10:B6:76") @@ ("HP Printer" :> "C8:B5:AD")
    @@ ("Dell" :> "F8:B1:56") @@ ("Lenovo" :> "28:D2:44") @@ ("Microsoft" :> "28:18:78")
    @@ ("Intel" :> "A4:34:D9") @@ ("Google" :> "F4:F5:D8")
    @@ ("Epson" :> "00:26:AB") @@ ("Canon" :> "00:1E:8F") @@ ("LG TV" :> "A8:23:FE")
    @@ ("Cisco" :> "00:1B:0D") @@ ("Zebra" :> "00:A0:F8") @@ ("Honeywell" :> "00:40:84")
    @@ ("Axis" :> "00:40:8C") @@ ("Texas Instruments" :> "00:17:E5")
    @@ ("GE Healthcare" :> "00:00:9A") @@ ("Philips Medical" :> "00:1E:C0")

\* {m["oui"]: m for m in CLIENT_MANUFACTURERS}: the last entry of an OUI wins
MANUFACTURER_BY_OUI ==
    [oui \in {CLIENT_MANUFACTURERS[j].oui : j \in DOMAIN CLIENT_MANUFACTURERS} |->
        CLIENT_MANUFACTURERS[CHOOSE j \in DOMAIN CLIENT_MANUFACTURERS :
            /\ CLIENT_MANUFACTURERS[j].oui = oui
            /\ \A k \in DOMAIN CLIENT_MANUFACTURERS : CLIENT_MANUFACTURERS[k].oui = oui => k <= j]]

\* self._manufacturers: every entry repeated weight times
RECURSIVE Weighted(_)
Weighted(entries) ==
    IF entries = <<>> THEN <<>>
    ELSE [j \in 1..Head(entries).weight |-> Head(entries)] \o Weighted(Tail(entries))

manufacturers == Weighted(CLIENT_MANUFACTURERS)

\* prefixes_by_oui: hostname prefix and deviceTypePrediction; os tells whether
\* the prediction ends with ", " and the operating system.
HostType(prefix, type, os) == [prefix |-> prefix, type |-> type, os |-> os]

prefixes_by_oui ==
    ("3C:E0:72" :> <<HostType("IPHONE", "iPhone", TRUE), HostType("IPAD", "iPad", TRUE)>>)
    @@ ("A4:83:E7" :> <<HostType("MACBOOK", "MacBook Pro", TRUE), HostType("IMAC", "iMac", TRUE)>>)
    @@ ("84:25:DB" :> <<HostType("GALAXY", "Samsung Galaxy", TRUE), HostType("SAMSUNG-TAB", "Samsung Tablet", TRUE)>>)
    @@ ("8C:79:F5" :> <<HostType("SAMSUNG-TV", "Samsung Smart TV", TRUE), HostType("SMARTTV", "Samsung Smart TV", TRUE)>>)
    @@ ("F8:B1:56" :> <<HostType("DELL-LAPTOP", "Dell Laptop", TRUE), HostType("DELL-DESKTOP", "Dell Desktop", TRUE)>>)
    @@ ("10:B6:76" :> <<HostType("HP-LAPTOP", "HP Laptop", TRUE), HostType("HP-DESKTOP", "HP Desktop", TRUE)>>)
    @@ ("C8:B5:AD" :> <<HostType("HP-PRINTER", "HP LaserJet Printer", FALSE), HostType("HP-MFP", "HP OfficeJet MFP", FALSE)>>)
    @@ ("28:D2:44" :> <<HostType("LENOVO", "Lenovo ThinkPad", TRUE), HostType("THINKPAD", "Lenovo ThinkPad", TRUE)>>)
    @@ ("28:18:78" :> <<HostType("SURFACE", "Microsoft Surface", TRUE), HostType("DEVICE", "Windows PC", TRUE)>>)
    @@ ("A4:34:D9" :> <<HostType("DEVICE", "Intel NUC", TRUE)>>)
    @@ ("F4:F5:D8" :> <<HostType("PIXEL", "Google Pixel", TRUE), HostType("CHROMEBOOK", "Chromebook", TRUE)>>)
    @@ ("00:26:AB" :> <<HostType("EPSON-PRINTER", "Epson Printer", FALSE)>>)
    @@ ("00:1E:8F" :> <<HostType("CANON-PRINTER", "Canon Printer", FALSE)>>)
    @@ ("A8:23:FE" :> <<HostType("LG-TV", "LG Smart TV", TRUE), HostType("LGTV", "LG Smart TV", TRUE)>>)
    @@ ("00:1B:0D" :> <<HostType("VOIP", "Cisco IP Phone", FALSE), HostType("CISCO-PHONE", "Cisco IP Phone 8845", FALSE)>>)
    @@ ("00:A0:F8" :> <<HostType("ZEBRA-SCANNER", "Zebra Scanner", FALSE), HostType("SCANNER", "Zebra TC52", FALSE)>>)
    @@ ("00:40:84" :> <<HostType("HON-SCANNER", "Honeywell Scanner", FALSE), HostType("SCANNER", "Honeywell CT60", FALSE)>>)
    @@ ("00:40:8C" :> <<HostType("AXIS-CAM", "Axis IP Camera", FALSE), HostType("CAMERA", "Axis P3245-V", FALSE)>>)
    @@ ("00:17:E5" :> <<HostType("SENSOR", "IoT Sensor", FALSE), HostType("TI-SENSOR", "Environmental Sensor", FALSE)>>)
    @@ ("00:00:9A" :> <<HostType("GE-MEDICAL", "GE Patient Monitor", FALSE), HostType("GE-MONITOR", "GE CARESCAPE Monitor", FALSE)>>)
    @@ ("00:1E:C0" :> <<HostType("PHILIPS-MED", "Philips IntelliVue", FALSE), HostType("PATIENT-MON", "Philips Patient Monitor", FALSE)>>)

\* usage_patterns (lines 425-435), ranges in units of 1000 bytes
usage_patterns ==
    ("Computer" :> [sent_range |-> <<500000, 5000000>>, recv_range |-> <<1000000, 10000000>>])
    @@ ("Phone" :> [sent_range |-> <<50000, 500000>>, recv_range |-> <<200000, 2000000>>])
    @@ ("Tablet" :> [sent_range |-> <<100000, 1000000>>, recv_range |-> <<500000, 5000000>>])
    @@ ("Printer" :> [sent_range |-> <<1000, 50000>>, recv_range |-> <<10000, 100000>>])
    @@ ("VoIP phone" :> [sent_range |-> <<500000, 2000000>>, recv_range |-> <<500000, 2000000>>])
    @@ ("IP camera" :> [sent_range |-> <<5000000, 50000000>>, recv_range |-> <<10000, 100000>>])
    @@ ("Smart TV" :> [sent_range |-> <<100000, 500000>>, recv_range |-> <<2000000, 20000000>>])
    @@ ("Medical" :> [sent_range |-> <<10000, 100000>>, recv_range |-> <<50000, 500000>>])
    @@ ("Other" :> [sent_range |-> <<1000, 100000>>, recv_range |-> <<5000, 200000>>])

\* random.randint(*range) for a range of byte counts
RandBytesAt(g, range) ==
    LET k == range[1] + ((Mix(g) * 65003) % (range[2] - range[1] + 1))
    IN  [k |-> k, r |-> IF k = range[2] THEN 0 ELSE (Mix(g) * 7) % 1000]

\* sent + recv
AddBytes(a, b) == [k |-> a.k + b.k + ((a.r + b.r) \div 1000), r |-> (a.r + b.r) % 1000]

\* int(x / 1000)
BytesDiv1000(x) == x.k

\* None where the model holds a record (a dict or a CIDR)
Null == [null |-> TRUE]

\* s[:n]
Prefix(s, n) == IF Len(s) <= n THEN s ELSE SubSeq(s, 1, n)

\* int(s) for decimal text s
DigitOf == [c \in {CharAt(DecDigits, i) : i \in 1..10} |-> (CHOOSE i \in 1..10 : CharAt(DecDigits, i) = c) - 1]

IsDigits(s) == Len(s) > 0 /\ \A i \in 1..Len(s) : CharAt(s, i) \in DOMAIN DigitOf

RECURSIVE ParseInt(_)
ParseInt(s) ==
    IF Len(s) = 0 THEN 0
    ELSE 10 * ParseInt(SubSeq(s, 1, Len(s) - 1)) + DigitOf[CharAt(s, Len(s))]

\* ClientGenerator._generate_mac
client_generate_mac(g, oui) ==
    Let(mac_suffix(g), LAMBDA suffix : [v |-> Lower(oui) \o ":" \o suffix.v, g |-> suffix.g])

\* A client address whose fourth octet is the client index modulo 256.
ip_from_index_mod_256(subnet, client_index) ==
    SubSeq(subnet.ip, 1, 3) \o <<client_index % 256>>

\* ClientGenerator._generate_ip_from_subnet
generate_ip_from_subnet(subnet, client_index) ==
    LET base == SubSeq(subnet.ip, 1, 3)
        fourth == (client_index % 250) + 2
    IN  base \o <<fourth>>

\* ClientGenerator._generate_hostname_and_type: v is <<hostname, deviceTypePrediction>>
generate_hostname_and_type(g, oui, os) ==
    Let(Choice(g, Get(prefixes_by_oui, Upper(oui), <<HostType("DEVICE", "Unknown Device", TRUE)>>)), LAMBDA entry :
    Let(ChoicesStr(entry.g, SerialAlphabet, 4), LAMBDA suffix :
    [v |-> <<entry.v.prefix \o "-" \o suffix.v,
             IF entry.v.os THEN entry.v.type \o ", " \o os ELSE entry.v.type>>,
     g |-> suffix.g]))

iot_patterns == <<"PRINTER", "SCANNER", "SENSOR", "CAMERA", "VOIP", "NUC", "DEVICE-", "SMARTTV", "TV", "GE-", "PHILIPS-", "PATIENT", "MEDICAL", "MONITOR">>
iot_type_patterns == <<"printer", "scanner", "sensor", "camera", "ip phone", "iot", "intel nuc", "smart tv", "television", "medical", "patient", "healthcare">>

\* ClientGenerator._is_iot_device
is_iot_device(hostname, device_type_prediction) ==
    \E hostname_upper \in {Upper(hostname)}, type_lower \in {Lower(device_type_prediction)} :
        AnyIn(hostname_upper, iot_patterns) \/ AnyIn(type_lower, iot_type_patterns)

\* ClientGenerator._get_ssid_for_device
get_ssid_for_device(g, hostname, device_type_prediction, named_vlan) ==
    IF is_iot_device(hostname, device_type_prediction) THEN [v |-> "IoT", g |-> g]
    ELSE IF named_vlan # "" /\ Contains(Lower(named_vlan), "guest") THEN [v |-> "Guest", g |-> g]
    ELSE [v |-> IF RandomAt(g) < 90 THEN "Corporate" ELSE "Guest", g |-> NextRng(g)]

first_names == <<"john", "jane", "mike", "sarah", "david", "lisa", "tom", "anna", "chris", "kate">>
last_names == <<"smith", "jones", "wilson", "brown", "davis", "miller", "moore", "taylor", "anderson", "thomas">>

\* ClientGenerator._generate_user
generate_user(g) ==
    [v |-> ChoiceAt(g, first_names) \o "." \o ChoiceAt(NextRng(g), last_names), g |-> g + 2]

vlan_names ==
    (1 :> "Default") @@ (10 :> "Corporate") @@ (11 :> "Corporate") @@ (12 :> "Corporate")
    @@ (13 :> "Corporate") @@ (20 :> "Corporate") @@ (21 :> "Corporate") @@ (30 :> "Guest")
    @@ (31 :> "Guest") @@ (40 :> "Voice") @@ (41 :> "Voice") @@ (50 :> "Servers")
    @@ (60 :> "IoT") @@ (70 :> "Management") @@ (80 :> "Wireless") @@ (90 :> "Security")
    @@ (99 :> "Management") @@ (100 :> "Data")

\* ClientGenerator._get_vlan_name
get_vlan_name(vlan_id) ==
    IF ~IsDigits(vlan_id) THEN "VLAN " \o vlan_id
    ELSE LET vid == ParseInt(vlan_id)
         IN  IF vid \in DOMAIN vlan_names THEN vlan_names[vid]
             ELSE IF vid < 20 THEN "Corporate"
             ELSE IF vid < 40 THEN "Guest"
             ELSE IF vid < 60 THEN "Voice"
             ELSE IF vid < 80 THEN "IoT"
             ELSE IF vid < 100 THEN "Management"
             ELSE "Data"

\* The usage pattern of a deviceTypePrediction (lines 437-443).
usage_pattern(device_type_prediction) ==
    LET device_type_lower == Lower(device_type_prediction)
    IN  IF AnyIn(device_type_lower, <<"smart tv", "television", "tizen", "webos">>)
        THEN usage_patterns["Smart TV"]
        ELSE IF AnyIn(device_type_lower, <<"medical", "patient", "healthcare", "intellivue", "carescape">>)
        THEN usage_patterns["Medical"]
        ELSE Get(usage_patterns, device_type_prediction, usage_patterns["Other"])

\* "user": self._generate_user() if random.random() > 0.3 else None
client_user(g) ==
    IF RandomAt(g) > 30 THEN generate_user(NextRng(g)) ELSE [v |-> None, g |-> NextRng(g)]

\* "switchport": f"GigabitEthernet1/0/{random.randint(1, 48)}" if random.random() > 0.4 else None
client_switchport(g) ==
    IF RandomAt(g) > 40
    THEN [v |-> "GigabitEthernet1/0/" \o ToString(RandIntAt(NextRng(g), 1, 48)), g |-> g + 2]
    ELSE [v |-> None, g |-> NextRng(g)]

wireless_capabilities == <<"802.11ac - 2.4 GHz", "802.11ac - 5 GHz", "802.11ax - 2.4 GHz", "802.11ax - 5 GHz", "802.11ax - 6 GHz", "802.11n - 2.4 GHz">>

\* The wireless-specific fields (lines 483-493); g is the state after pskGroup.
client_wireless(g, base) ==
    Let(base, LAMBDA client :
    IF client.recentDeviceConnection = "Wireless"
    THEN [v |-> [client EXCEPT !.ssid = ChoiceAt(g, <<"Corporate", "Guest", "IoT">>),
                               !.switchport = None,
                               !.wirelessCapabilities = ChoiceAt(NextRng(g), wireless_capabilities)],
          g |-> g + 2]
    ELSE [v |-> client, g |-> g])

\* ClientGenerator.generate_client
generate_client(g, now, client_id, network_id, vlan_id, client_index, device_serial, vlan_subnet, force_manufacturer) ==
    Let(IF force_manufacturer # Null THEN [v |-> force_manufacturer, g |-> g] ELSE Choice(g, manufacturers), LAMBDA manufacturer :
    Let(client_generate_mac(manufacturer.g, manufacturer.v.oui), LAMBDA mac :
    Let(Choice(mac.g, manufacturer.v.os), LAMBDA os :
    Let(generate_hostname_and_type(os.g, manufacturer.v.oui, os.v), LAMBDA host :
    Let([first_seen |-> now - 1440 * RandIntAt(host.g, 1, 90),
         last_seen |-> now - RandIntAt(host.g + 1, 0, 60),
         sent |-> RandBytesAt(host.g + 2, usage_pattern(host.v[2]).sent_range),
         recv |-> RandBytesAt(host.g + 3, usage_pattern(host.v[2]).recv_range)], LAMBDA seen :
    Let(client_user(host.g + 4), LAMBDA user :
    Let(client_switchport(user.g), LAMBDA switchport :
    client_wireless(switchport.g + 7,
        [id |-> client_id,
         mac |-> mac.v,
         ip |-> IF vlan_subnet # Null
                THEN generate_ip_from_subnet(vlan_subnet, client_index)
                ELSE <<192, 168, ParseInt(vlan_id), (client_index % 250) + 2>>,
         ip6 |-> None,
         ip6Local |-> None,
         description |-> host.v[1],
         firstSeen |-> ToString(seen.first_seen * 60),
         lastSeen |-> ToString(seen.last_seen * 60),
         manufacturer |-> manufacturer.v.name,
         os |-> os.v,
         deviceTypePrediction |-> host.v[2],
         user |-> user.v,
         vlan |-> vlan_id,
         namedVlan |-> get_vlan_name(vlan_id),
         switchport |-> switchport.v,
         ssid |-> None,
         status |-> IF RandomAt(switchport.g) > 10 THEN "Online" ELSE "Offline",
         notes |-> ChoiceAt(switchport.g + 1, <<None, None, None, "Visitor device", "Temp access", "Executive laptop", "Conference room">>),
         smInstalled |-> RandomAt(switchport.g + 2) > 80,
         recentDeviceSerial |-> device_serial,
         recentDeviceName |-> None,
         recentDeviceMac |-> None,
         recentDeviceConnection |-> IF RandomAt(switchport.g + 3) > 40 THEN "Wired" ELSE "Wireless",
         wirelessCapabilities |-> None,
         adaptivePolicyGroup |-> ChoiceAt(switchport.g + 4, <<None, None, "1: Employee", "2: Infrastructure", "3: Guest", "4: IoT Devices">>),
         groupPolicy8021x |-> ChoiceAt(switchport.g + 5, <<None, None, None, "Employee_Access", "Guest_Access", "Contractor_Access", "Student_Access">>),
         pskGroup |-> ChoiceAt(switchport.g + 6, <<None, None, None, "Group 1", "Group 2", "IoT Group">>),
         usage |-> [sent |-> seen.sent, recv |-> seen.recv, total |-> AddBytes(seen.sent, seen.recv)]]))))))))

\* The keys generate_network_client copies from the base client (lines 526-553).
NetworkClientKeys ==
    {"id", "mac", "ip", "ip6", "ip6Local", "description", "firstSeen", "lastSeen",
     "manufacturer", "os", "deviceTypePrediction", "user", "vlan", "namedVlan", "ssid",
     "switchport", "wirelessCapabilities", "smInstalled", "recentDeviceSerial",
     "recentDeviceName", "recentDeviceMac", "recentDeviceConnection", "notes",
     "groupPolicy8021x", "adaptivePolicyGroup", "pskGroup", "status", "usage"}

\* ClientGenerator.generate_network_client
generate_network_client(g, now, client_id, network_id, vlan_id, client_index, vlan_subnet, force_manufacturer) ==
    Let(generate_client(g, now, client_id, network_id, vlan_id, client_index, None, vlan_subnet, force_manufacturer), LAMBDA base_client :
    [v |-> [key \in NetworkClientKeys |-> base_client.v[key]] @@ [_network_id |-> network_id],
     g |-> base_client.g])

\* ClientGenerator.generate_device_client
generate_device_client(g, now, client_id, network_id, vlan_id, client_index, device_serial, vlan_subnet) ==
    Let(generate_client(g, now, client_id, network_id, vlan_id, client_index, device_serial, vlan_subnet, Null), LAMBDA base_client :
    [v |-> [id |-> base_client.v.id,
            mac |-> base_client.v.mac,
            description |-> base_client.v.description,
            mdnsName |-> base_client.v.description,
            dhcpHostname |-> Prefix(Upper(Remove(base_client.v.description, "-")), 15),
            user |-> base_client.v.user,
            ip |-> base_client.v.ip,
            vlan |-> base_client.v.vlan,
            namedVlan |-> base_client.v.namedVlan,
            switchport |-> base_client.v.switchport,
            adaptivePolicyGroup |-> base_client.v.adaptivePolicyGroup,
            usage |-> [sent |-> BytesDiv1000(base_client.v.usage.sent),
                       recv |-> BytesDiv1000(base_client.v.usage.recv)]],
     g |-> base_client.g])

\* vlan = random.choice(vlans) if vlans else {...} (line 654)
pick_vlan(g, vlans) ==
    IF vlans # <<>> THEN Choice(g, vlans)
    ELSE [v |-> [id |-> "1", name |-> "Default", subnet |-> [ip |-> <<192, 168, 1, 0>>, mask |-> 24]], g |-> g]

\* No client is forced to a manufacturer.
force_mfr_ignored(required_mfrs, i) == Null

\* force_mfr for client i (lines 664-669)
force_mfr(required_mfrs, i) ==
    IF i < Len(required_mfrs) /\ required_mfrs[i + 1] \in DOMAIN DEVICE_TYPE_BY_KEY
    THEN Get(MANUFACTURER_BY_OUI, DEVICE_TYPE_BY_KEY[required_mfrs[i + 1]], Null)
    ELSE Null

always_wireless(hostname, device_prediction) ==
    \/ AnyIn(hostname, <<"IPHONE", "IPAD", "GALAXY", "PIXEL", "SAMSUNG-TAB", "TABLET">>)
    \/ AnyIn(device_prediction, <<"iphone", "ipad", "galaxy", "pixel", "tablet", "android">>)

always_wired(hostname, device_prediction) ==
    \/ AnyIn(hostname, <<"DESKTOP", "PRINTER", "SCANNER", "VOIP", "SENSOR", "CAMERA", "NUC", "GE-", "PHILIPS-", "PATIENT", "MEDICAL", "CISCO-PHONE", "HP-PRINTER", "HP-MFP", "EPSON-", "CANON-", "AXIS-", "HON-", "ZEBRA-">>)
    \/ AnyIn(device_prediction, <<"desktop", "printer", "scanner", "ip phone", "voip", "sensor", "camera", "nuc", "medical", "patient", "healthcare", "laserjet", "officejet", "intellivue", "carescape">>)

is_smart_tv(hostname, device_prediction) ==
    \/ AnyIn(hostname, <<"SAMSUNG-TV", "LG-TV", "SMARTTV", "LGTV">>)
    \/ AnyIn(device_prediction, <<"smart tv", "television", "tizen", "webos">>)

\* is_wired by device type (lines 706-716)
wired_by_type(g, hostname, device_prediction) ==
    IF always_wireless(hostname, device_prediction) THEN [v |-> FALSE, g |-> g]
    ELSE IF always_wired(hostname, device_prediction) THEN [v |-> TRUE, g |-> g]
    ELSE IF is_smart_tv(hostname, device_prediction) THEN [v |-> RandomAt(g) < 50, g |-> NextRng(g)]
    ELSE [v |-> RandomAt(g) < 40, g |-> NextRng(g)]

\* is_wired adjusted to the available infrastructure (lines 719-722)
wired_by_infrastructure(is_wired, has_switches, has_aps) ==
    LET forced_wireless == IF is_wired /\ ~has_switches THEN FALSE ELSE is_wired
    IN  IF ~forced_wireless /\ ~has_aps THEN TRUE ELSE forced_wireless

\* Any switch or access point, whatever the connection type.
pick_device_of_any_type(g, is_wired, switches, access_points) ==
    IF switches \o access_points # <<>>
    THEN [device |-> ChoiceAt(g, switches \o access_points), connection_type |-> IF is_wired THEN "Wired" ELSE "Wireless", g |-> NextRng(g)]
    ELSE [device |-> Null, connection_type |-> IF is_wired THEN "Wired" ELSE "Wireless", g |-> g]

\* The device a client connects to and its connection type (lines 725-739).
pick_device(g, is_wired, switches, access_points) ==
    IF is_wired /\ switches # <<>>
    THEN [device |-> ChoiceAt(g, switches), connection_type |-> "Wired", g |-> NextRng(g)]
    ELSE IF ~is_wired /\ access_points # <<>>
    THEN [device |-> ChoiceAt(g, access_points), connection_type |-> "Wireless", g |-> NextRng(g)]
    ELSE IF switches # <<>>
    THEN [device |-> ChoiceAt(g, switches), connection_type |-> "Wired", g |-> NextRng(g)]
    ELSE IF access_points # <<>>
    THEN [device |-> ChoiceAt(g, access_points), connection_type |-> "Wireless", g |-> NextRng(g)]
    ELSE [device |-> Null, connection_type |-> IF is_wired THEN "Wired" ELSE "Wireless", g |-> g]

\* Connection info only: switchport and ssid stay as generate_client drew them.
connect_client_info_only(g, net_client, pick, hostname, device_prediction, vlan_name) ==
    [v |-> [net_client EXCEPT
                !.recentDeviceSerial = IF pick.device # Null THEN pick.device.serial ELSE None,
                !.recentDeviceConnection = pick.connection_type],
     g |-> g]

\* Connection info and connection-specific fields of the network client (lines 741-771).
connect_client(g, net_client, pick, hostname, device_prediction, vlan_name) ==
    LET connected == [net_client EXCEPT
            !.recentDeviceSerial = IF pick.device # Null THEN pick.device.serial ELSE None,
            !.recentDeviceName = IF pick.device # Null THEN Get(pick.device, "name", None) ELSE None,
            !.recentDeviceMac = IF pick.device # Null THEN Get(pick.device, "mac", None) ELSE None,
            !.recentDeviceConnection = pick.connection_type]
    IN  IF pick.connection_type = "Wired"
        THEN [v |-> [connected EXCEPT !.switchport = "GigabitEthernet1/0/" \o ToString(RandIntAt(g, 1, 48)),
                                      !.ssid = None,
                                      !.wirelessCapabilities = None],
              g |-> NextRng(g)]
        ELSE Let(get_ssid_for_device(g, hostname, device_prediction, vlan_name), LAMBDA ssid :
             [v |-> [connected EXCEPT !.switchport = None,
                                      !.ssid = ssid.v,
                                      !.wirelessCapabilities = ChoiceAt(ssid.g, wireless_capabilities)],
              g |-> NextRng(ssid.g)])

\* The device client of a connected client, with the network client's switchport (lines 776-790).
connected_device_client(g, now, net_client, network_id, vlan, client_index) ==
    Let(generate_device_client(g, now, net_client.id, network_id, Get(vlan, "id", "1"), client_index, net_client.recentDeviceSerial, Get(vlan, "subnet", Null)), LAMBDA dev_client :
    [v |-> [dev_client.v EXCEPT !.switchport = IF net_client.recentDeviceConnection = "Wired" THEN net_client.switchport ELSE None],
     g |-> dev_client.g])

(***************************************************************************)
(* ClientGenerator.generate_clients_for_network.  Its locals are a record  *)
(*   [pc, i, count, network_id, vlans, devices, required_mfrs,             *)
(*    network_clients, device_clients, g, now]                             *)
(* and one step is one pass through the body of `for i in range(count)`.   *)
(* required_manufacturers = None is the empty list it is replaced by.      *)
(***************************************************************************)
\* Every device counts as a device of the type.
OfType_any(devices, product_type) == devices

\* The switches and the access points of the device list (lines 639-640).
OfType(devices, product_type) == SelectSeq(devices, LAMBDA d : d.productType = product_type)

\* A call that returns no client when the network has no VLAN.
ClientEnterNeedingVlans(g, now, network_id, vlans, count, devices, required_manufacturers) ==
    [pc |-> IF count > 0 /\ vlans # <<>> THEN "loop" ELSE "done",
     i |-> 0, count |-> count,
     network_id |-> network_id, vlans |-> vlans, devices |-> devices,
     required_mfrs |-> required_manufacturers,
     network_clients |-> <<>>,
     device_clients |-> [serial \in {devices[j].serial : j \in {j \in DOMAIN devices : devices[j].productType \in {"switch", "wireless"}}} |-> <<>>],
     g |-> g, now |-> now]

\* The locals before the first pass (lines 632-650).
ClientEnter(g, now, network_id, vlans, count, devices, required_manufacturers) ==
    [pc |-> IF count > 0 THEN "loop" ELSE "done",
     i |-> 0, count |-> count,
     network_id |-> network_id, vlans |-> vlans, devices |-> devices,
     required_mfrs |-> required_manufacturers,
     network_clients |-> <<>>,
     device_clients |-> [serial \in {devices[j].serial : j \in {j \in DOMAIN devices : devices[j].productType \in {"switch", "wireless"}}} |-> <<>>],
     g |-> g, now |-> now]

\* One client (lines 653-790).
ClientStep(st) ==
    Let(pick_vlan(st.g, st.vlans), LAMBDA vlan :
    Let(RandInt(vlan.g, 100000, 999999), LAMBDA number :
    Let(generate_network_client(number.g, st.now, "k" \o ToString(number.v), st.network_id, Get(vlan.v, "id", "1"), st.i, Get(vlan.v, "subnet", Null), force_mfr(st.required_mfrs, st.i)), LAMBDA generated :
    Let([hostname |-> Upper(generated.v.description), device_prediction |-> Lower(generated.v.deviceTypePrediction)], LAMBDA text :
    Let(wired_by_type(generated.g, text.hostname, text.device_prediction), LAMBDA by_type :
    Let(pick_device(by_type.g, wired_by_infrastructure(by_type.v, OfType(st.devices, "switch") # <<>>, OfType(st.devices, "wireless") # <<>>), OfType(st.devices, "switch"), OfType(st.devices, "wireless")), LAMBDA pick :
    Let(connect_client(pick.g, [generated.v EXCEPT !.namedVlan = Get(vlan.v, "name", "Default")], pick, text.hostname, text.device_prediction, Get(vlan.v, "name", "Default")), LAMBDA net_client :
    Let(IF net_client.v.recentDeviceSerial # None
        THEN connected_device_client(net_client.g, st.now, net_client.v, st.network_id, vlan.v, st.i)
        ELSE [v |-> Null, g |-> net_client.g], LAMBDA dev_client :
    [st EXCEPT !.network_clients = Append(@, net_client.v),
               !.device_clients = IF dev_client.v # Null
                                  THEN [@ EXCEPT ![net_client.v.recentDeviceSerial] = Append(@, dev_client.v)]
                                  ELSE @,
               !.g = dev_client.g,
               !.i = st.i + 1,
               !.pc = IF st.i + 1 < st.count THEN "loop" ELSE "done"]))))))))

\* return network_clients, device_clients (line 792)
ClientReturn(st) == <<st.network_clients, st.device_clients>>

\* n clients in a row, halving n so that the evaluation stays shallow.
RECURSIVE ClientRun(_, _)
ClientRun(locals, n) ==
    IF n = 0 THEN locals
    ELSE IF n = 1 THEN Let(locals, LAMBDA st : ClientStep(st))
    ELSE Let(ClientRun(locals, n \div 2), LAMBDA half : ClientRun(half, n - (n \div 2)))

\* A call that seeds the stream again when it is entered.
generate_clients_for_network_reseeding(g, now, network_id, vlans, count, devices, required_manufacturers) ==
    Let(ClientRun(ClientEnter(SeedRng(g \div 1000000), now, network_id, vlans, count, devices, required_manufacturers), IF count > 0 THEN count ELSE 0), LAMBDA st :
    [v |-> ClientReturn(st), g |-> st.g])

\* ClientGenerator.generate_clients_for_network, from call to return.
generate_clients_for_network(g, now, network_id, vlans, count, devices, required_manufacturers) ==
    Let(ClientRun(ClientEnter(g, now, network_id, vlans, count, devices, required_manufacturers), IF count > 0 THEN count ELSE 0), LAMBDA st :
    [v |-> ClientReturn(st), g |-> st.g])

(***************************************************************************)
(* seed_data/generators/network_generator.py                               *)
(***************************************************************************)
VlanTemplate(id, name, third, dhcp) == [id |-> id, name |-> name, subnet |-> [ip |-> <<192, 168, third, 0>>, mask |-> 24], applianceIp |-> <<192, 168, third, 1>>, dhcpHandling |-> dhcp, dnsNameservers |-> "upstream_dns"]

VLAN_TEMPLATES ==
    [corporate |-> VlanTemplate(10, "Corporate", 10, "Run a DHCP server"),
     guest |-> VlanTemplate(20, "Guest", 20, "Run a DHCP server"),
     voice |-> VlanTemplate(30, "Voice", 30, "Run a DHCP server"),
     iot |-> VlanTemplate(40, "IoT", 40, "Run a DHCP server"),
     management |-> VlanTemplate(99, "Management", 99, "Do not respond to DHCP requests"),
     server |-> VlanTemplate(50, "Servers", 50, "Do not respond to DHCP requests")]

\* s.replace(" ", "-")
Dashed(s) == MapStr(s, [x \in {" "} |-> "-"])

\* NetworkGenerator.generate_organization
generate_organization(g, org_id, name, region) ==
    [v |-> [id |-> org_id,
            name |-> name,
            url |-> "https://mock.meraki.com/o/" \o Dashed(Lower(name)) \o "/manage/organization/overview",
            api |-> [enabled |-> TRUE],
            licensing |-> [model |-> "co-term"],
            cloud |-> [region |-> [name |-> region, host |-> [name |-> IF region = "North America" THEN "United States" ELSE region]]],
            management |-> [details |-> <<[name |-> "customer number", value |-> ToString(RandIntAt(g, 10000000, 99999999))]>>]],
     g |-> NextRng(g)]

\* NetworkGenerator.generate_network
generate_network(network_id, organization_id, name, product_types, timezone, tags, notes) ==
    [id |-> network_id,
     organizationId |-> organization_id,
     name |-> name,
     productTypes |-> product_types,
     timeZone |-> timezone,
     tags |-> tags,
     enrollmentString |-> None,
     url |-> "https://mock.meraki.com/" \o Dashed(name) \o "/manage/clients",
     notes |-> IF notes # "" THEN notes ELSE None,
     details |-> None,
     isBoundToConfigTemplate |-> FALSE,
     isVirtual |-> FALSE]

\* NetworkGenerator.generate_vlan
generate_vlan(g, network_id, vlan_id, name, subnet, appliance_ip, dhcp_handling, dns_nameservers) ==
    [v |-> [id |-> ToString(vlan_id),
            interfaceId |-> ChoicesAt(g, DecDigits, 13),
            networkId |-> network_id,
            name |-> name,
            applianceIp |-> appliance_ip,
            subnet |-> subnet,
            fixedIpAssignments |-> <<>>,
            reservedIpRanges |-> <<>>,
            dnsNameservers |-> dns_nameservers,
            dhcpHandling |-> dhcp_handling,
            dhcpLeaseTime |-> "1 day",
            dhcpBootOptionsEnabled |-> FALSE,
            dhcpOptions |-> <<>>,
            vpnNatSubnet |-> subnet,
            mandatoryDhcp |-> [enabled |-> FALSE],
            ipv6 |-> [enabled |-> FALSE],
            dhcpBootFilename |-> None,
            dhcpBootNextServer |-> None,
            dhcpRelayServerIps |-> <<>>,
            groupPolicyId |-> None,
            templateVlanType |-> "same",
            cidr |-> subnet,
            mask |-> subnet.mask],
     g |-> g + 13]

\* The VLAN of position i (from 0) of generate_vlans_for_network's loop.
vlan_of_type(g, network_id, vlan_type, third_octet) ==
    LET template == Get(VLAN_TEMPLATES, vlan_type, VLAN_TEMPLATES["corporate"])
    IN  generate_vlan(g, network_id, template.id, template.name, [ip |-> <<192, 168, third_octet, 0>>, mask |-> 24], <<192, 168, third_octet, 1>>, template.dhcpHandling, template.dnsNameservers)

\* NetworkGenerator.generate_vlans_for_network; every VLAN draws 13 digits.
generate_vlans_for_network(g, network_id, vlan_types, base_third_octet) ==
    [v |-> [j \in 1..Len(vlan_types) |-> vlan_of_type(g + 13 * (j - 1), network_id, vlan_types[j], base_third_octet + (j - 1)).v],
     g |-> g + 13 * Len(vlan_types)]

\* NetworkGenerator.generate_vlan_profile
generate_vlan_profile(network_id, profile_id, name, vlan_names_arg, is_default) ==
    [iname |-> profile_id,
     name |-> name,
     isDefault |-> is_default,
     vlanNames |-> [j \in 1..Len(vlan_names_arg) |-> [name |-> vlan_names_arg[j], adaptivePolicyGroup |-> None]],
     vlanGroups |-> <<>>]

\* Every VPN config is a spoke's.
generate_vpn_config_spoke_only(network_id, mode, subnets, hubs) ==
    [mode |-> "spoke", hubs |-> hubs, subnets |-> subnets]

\* NetworkGenerator.generate_vpn_config; hubs = None is the empty list.
generate_vpn_config(network_id, mode, subnets, hubs) ==
    IF mode = "hub"
    THEN [mode |-> mode, hubs |-> hubs, subnets |-> subnets, localStatusPages |-> [enabled |-> TRUE]]
    ELSE [mode |-> mode, hubs |-> hubs, subnets |-> subnets]

\* NetworkGenerator.generate_vpn_subnet
generate_vpn_subnet(subnet, use_vpn, nat_enabled) ==
    [localSubnet |-> subnet, useVpn |-> use_vpn, nat |-> [enabled |-> nat_enabled]]

\* NetworkGenerator.generate_cellular_subnet_pool; cidr is the base address
generate_cellular_subnet_pool(network_id, cidr, mask) ==
    [deploymentMode |-> "routed",
     cidr |-> [ip |-> cidr, mask |-> mask],
     mask |-> mask,
     subnets |-> <<[serial |-> None,
                    name |-> "Subnet 1",
                    applianceIp |-> SubSeq(cidr, 1, 2) \o <<1, 1>>,
                    subnet |-> [ip |-> SubSeq(cidr, 1, 2) \o <<1, 0>>, mask |-> 24]]>>]

(***************************************************************************)
(* SpecDevices: calls of generate_devices_for_network, one loop body per   *)
(* step, over configs with 0..MaxPerCategory devices per category and one  *)
(* config whose device index passes 254.                                   *)
(***************************************************************************)
RepeatCfg(n, c) == [j \in 1..n |-> c]

DevConfigOf(a, s, w, c) ==
    [appliances |-> [j \in 1..a |-> [model |-> "MX68", name |-> "Branch-MX-" \o ToString(j)]],
     switches |-> <<[model |-> "MS425-32", count |-> s, name_prefix |-> "SW"], [model |-> "MS225-48"]>>,
     wireless |-> <<[model |-> "MR46", count |-> w, name_prefix |-> "AP"]>>,
     cellular |-> RepeatCfg(c, [model |-> "MG41"])]

DevConfigChoices ==
    { DevConfigOf(a, s, w, c) : a \in 0..MaxPerCategory, s \in 0..MaxPerCategory,
                                w \in 0..MaxPerCategory, c \in 0..MaxPerCategory }
    \cup { [wireless |-> <<[model |-> "MR33"]>>],
           [appliances |-> <<[model |-> "MX450"]>>,
            switches |-> <<[model |-> "MS350-48", count |-> LargeSwitchCount, name_prefix |-> "ACC"]>>,
            wireless |-> <<[model |-> "MR57", count |-> 2]>>,
            cellular |-> <<[model |-> "MG21", name |-> "MG"]>>] }

InitDevices ==
    /\ clock \in Clocks
    /\ \E seed \in Seeds, config \in DevConfigChoices :
          dgen = DevEnter(SeedRng(seed), clock, "N_1", "883652", US_LOCATIONS[1], config, 20)
    /\ cgen = Idle
    /\ asm = Idle
    /\ outcomes = <<>>
    /\ val = Idle
    /\ api = Idle
    /\ db = Idle

GenAppliance ==
    /\ dgen.pc = "appliances"
    /\ dgen' = DevStepAppliance(dgen)
    /\ UNCHANGED <<val, api, db, clock, cgen, asm, outcomes>>

GenSwitch ==
    /\ dgen.pc = "switches"
    /\ dgen' = DevStepSwitch(dgen)
    /\ UNCHANGED <<val, api, db, clock, cgen, asm, outcomes>>

GenWireless ==
    /\ dgen.pc = "wireless"
    /\ dgen' = DevStepWireless(dgen)
    /\ UNCHANGED <<val, api, db, clock, cgen, asm, outcomes>>

GenCellular ==
    /\ dgen.pc = "cellular"
    /\ dgen' = DevStepCellular(dgen)
    /\ UNCHANGED <<val, api, db, clock, cgen, asm, outcomes>>

NextDevices == GenAppliance \/ GenSwitch \/ GenWireless \/ GenCellular

SpecDevices == InitDevices /\ [][NextDevices]_vars

(***************************************************************************)
(* SpecClients: calls of generate_clients_for_network, one client per      *)
(* step, for device lists with and without switches and access points,     *)
(* VLAN lists of 0..3 VLANs and lists of required manufacturers.           *)
(***************************************************************************)
\* A network's devices of the given product types, as generate_device makes them.
ClientDevices(network_id, product_types) ==
    [j \in 1..Len(product_types) |->
        generate_device(SeedRng(7) + 40 * j, ClockBase, network_id, "883652", product_types[j],
                        CASE product_types[j] = "appliance" -> "MX68"
                          [] product_types[j] = "switch" -> "MS225-48"
                          [] product_types[j] = "wireless" -> "MR46"
                          [] OTHER -> "MG41",
                        "Branch-" \o ToString(j), US_LOCATIONS[1], 20, j - 1, <<>>).v]

DeviceListChoices ==
    { ClientDevices("N_1", types) :
        types \in { <<>>, <<"appliance">>, <<"appliance", "cellularGateway">>,
                    <<"appliance", "switch">>, <<"appliance", "wireless">>,
                    <<"appliance", "switch", "switch", "wireless", "wireless", "cellularGateway">> } }

VlanListChoices ==
    { generate_vlans_for_network(SeedRng(9), "N_1", types, 20).v :
        types \in { <<>>, <<"guest">>, <<"corporate", "guest", "voice">> } }

RequiredChoices ==
    { <<>>, <<"HP Printer", "Samsung TV", "Apple Mobile">>, <<"Dell", "Nokia", "LG TV", "GE Healthcare">> }

ClientCounts == {0, MaxClients}

InitClients ==
    /\ clock \in Clocks
    /\ \E seed \in Seeds, devices \in DeviceListChoices, vlans \in VlanListChoices, required \in RequiredChoices, count \in ClientCounts :
          cgen = ClientEnter(SeedRng(seed), clock, "N_1", vlans, count, devices, required)
    /\ dgen = Idle
    /\ asm = Idle
    /\ outcomes = <<>>
    /\ val = Idle
    /\ api = Idle
    /\ db = Idle

InitManyClients ==
    /\ clock \in Clocks
    /\ \E seed \in Seeds :
          cgen = ClientEnter(SeedRng(seed), clock, "N_1", generate_vlans_for_network(SeedRng(9), "N_1", <<"corporate", "guest", "voice">>, 20).v, ManyClients, ClientDevices("N_1", <<"appliance", "switch", "wireless">>), <<"HP Printer">>)
    /\ dgen = Idle
    /\ asm = Idle
    /\ outcomes = <<>>
    /\ val = Idle
    /\ api = Idle
    /\ db = Idle

GenClient ==
    /\ cgen.pc = "loop"
    /\ cgen' = ClientStep(cgen)
    /\ UNCHANGED <<val, api, db, clock, dgen, asm, outcomes>>

NextClients == GenClient

InitClientCalls == InitClients \/ InitManyClients

SpecClients == InitClientCalls /\ [][NextClients]_vars

(***************************************************************************)
(* seed_data/topologies: the three assemblers.  An assembler call is the   *)
(* frame asm: its position, its loop variables, the position g of the      *)
(* random stream and the lists of its results storage.  A finished call    *)
(* leaves what it returned or raised in outcomes.                          *)
(***************************************************************************)
\* dict.update
Update(d, e) == [k \in DOMAIN d \cup DOMAIN e |-> IF k \in DOMAIN e THEN e[k] ELSE d[k]]

\* a, b = values: binding n names needs exactly n values.
Unpacks(values, n) == Len(values) = n

UnpackError(n) == "ValueError: too many values to unpack (expected " \o ToString(n) \o ")"

\* The vpn subnets of a network's VLANs.
VpnSubnets(net_vlans) == [j \in 1..Len(net_vlans) |-> generate_vpn_subnet(net_vlans[j].subnet, TRUE, FALSE)]

\* The stats summary of the returned aggregate.
Stats(store) ==
    [organizations |-> Len(store.organizations),
     networks |-> Len(store.networks),
     devices |-> Len(store.devices),
     vlans |-> Len(store.vlans),
     clients |-> Len(store.network_clients)]

\* The head of every assembler: DeviceGenerator(seed=seed), then
\* ClientGenerator(seed=seed), then NetworkGenerator(seed=seed).  Each
\* constructor runs random.seed(seed) and draws nothing, so the stream the
\* third one leaves is the start of the seed's stream.
construct_generators(seed) ==
    Let(SeedRng(seed), LAMBDA after_device_gen :
    Let(SeedRng(seed), LAMBDA after_client_gen :
    SeedRng(seed)))

\* A call that raised.
Raised(frame, error) == [name |-> frame.name, seed |-> frame.seed, outcome |-> "raised", error |-> error]

\* A call that returned.
Returned(frame, topology) == [name |-> frame.name, seed |-> frame.seed, outcome |-> "returned", topology |-> topology]

\* The seeds an assembler may be called with: any seed first, and then the
\* call is repeated with the same arguments.
CallSeeds(name) ==
    IF outcomes = <<>> THEN Seeds
    ELSE IF outcomes[1].name = name THEN {outcomes[1].seed} ELSE {}

\* A generation call comes before any seeding.
CanCall == asm.pc = "idle" /\ Len(outcomes) < MaxCalls /\ db = Idle

(***************************************************************************)
(* seed_data/topologies/hub_spoke.py                                       *)
(***************************************************************************)
\* Results storage (lines 32-42)
HubSpokeStorage ==
    [organizations |-> <<>>, networks |-> <<>>, devices |-> <<>>,
     device_availabilities |-> <<>>, device_statuses |-> <<>>,
     vlans |-> <<>>, vlan_profiles |-> <<>>, network_clients |-> <<>>,
     device_clients |-> <<>>, vpn_configs |-> <<>>, cellular_subnet_pools |-> <<>>]

hq_network_id == "N_HQ001"

hq_device_config ==
    [appliances |-> <<[model |-> "MX450", name |-> "HQ-MX-01", tags |-> <<"hub", "security-appliance", "datacenter">>]>>,
     switches |-> <<[model |-> "MS425-32", count |-> 2, name_prefix |-> "HQ-CORE-SW", tags |-> <<"switch", "core-layer", "datacenter">>],
                    [model |-> "MS350-48", count |-> 4, name_prefix |-> "HQ-DIST-SW", tags |-> <<"switch", "distribution-layer">>],
                    [model |-> "MS225-48", count |-> 8, name_prefix |-> "HQ-ACC-SW", tags |-> <<"switch", "access-layer">>]>>,
     wireless |-> <<[model |-> "MR57", count |-> 20, name_prefix |-> "HQ-AP", tags |-> <<"wireless-ap", "indoor", "wifi6e">>]>>,
     cameras |-> <<[model |-> "MV33", count |-> 8, name_prefix |-> "HQ-CAM-INDOOR", tags |-> <<"camera", "indoor", "4k">>],
                   [model |-> "MV63", count |-> 4, name_prefix |-> "HQ-CAM-OUTDOOR", tags |-> <<"camera", "outdoor", "4k">>],
                   [model |-> "MV13", count |-> 6, name_prefix |-> "HQ-CAM-MINI", tags |-> <<"camera", "indoor", "mini-dome">>]>>,
     sensors |-> <<[model |-> "MT14", count |-> 10, name_prefix |-> "HQ-DOOR", tags |-> <<"sensor", "door">>],
                   [model |-> "MT10", count |-> 8, name_prefix |-> "HQ-TEMP", tags |-> <<"sensor", "temperature">>]>>]

hq_required_manufacturers ==
    <<"Samsung TV", "Samsung TV", "Samsung TV", "LG TV", "LG TV", "HP Printer", "HP Printer", "HP Printer", "Canon", "Epson">>

MC(model, count) == [model |-> model, count |-> count]

branch_configs == <<
    [name |-> "Branch-NYC", model |-> "MX85", switches |-> <<MC("MS250-48", 2)>>, aps |-> <<MC("MR56", 8)>>, cameras |-> <<MC("MV33", 4), MC("MV63", 2)>>, clients |-> 60,
     required_clients |-> <<"Samsung TV", "Samsung TV", "LG TV", "HP Printer", "HP Printer", "Canon">>],
    [name |-> "Branch-Chicago", model |-> "MX85", switches |-> <<MC("MS250-48", 2)>>, aps |-> <<MC("MR56", 6)>>, cameras |-> <<MC("MV23", 3), MC("MV63X", 2)>>, clients |-> 55,
     required_clients |-> <<"Samsung TV", "LG TV", "HP Printer", "HP Printer", "Epson">>],
    [name |-> "Branch-LA", model |-> "MX75", switches |-> <<MC("MS225-48", 2)>>, aps |-> <<MC("MR46", 6)>>, cameras |-> <<MC("MV13", 4)>>, clients |-> 50,
     required_clients |-> <<"Samsung TV", "LG TV", "HP Printer", "Canon">>],
    [name |-> "Branch-Seattle", model |-> "MX75", switches |-> <<MC("MS225-48", 2)>>, aps |-> <<MC("MR46", 5)>>, cameras |-> <<MC("MV23X", 3)>>, clients |-> 45,
     required_clients |-> <<"Samsung TV", "HP Printer", "Epson">>],
    [name |-> "Branch-Austin", model |-> "MX75", switches |-> <<MC("MS225-48", 1)>>, aps |-> <<MC("MR46", 5)>>, cameras |-> <<MC("MV13M", 2)>>, clients |-> 40,
     required_clients |-> <<"LG TV", "HP Printer">>],
    [name |-> "Branch-Denver", model |-> "MX68", switches |-> <<MC("MS225-48", 1)>>, aps |-> <<MC("MR46", 4)>>, cameras |-> <<MC("MV13", 2)>>, clients |-> 35,
     required_clients |-> <<"HP Printer", "Canon">>],
    [name |-> "Branch-Boston-Medical", model |-> "MX68", switches |-> <<MC("MS225-48", 1)>>, aps |-> <<MC("MR46", 4)>>, cameras |-> <<MC("MV33M", 2)>>, clients |-> 40,
     required_clients |-> <<"GE Healthcare", "GE Healthcare", "Philips Medical", "Philips Medical", "HP Printer", "Epson">>],
    [name |-> "Branch-Atlanta", model |-> "MX68", switches |-> <<MC("MS120-24", 1)>>, aps |-> <<MC("MR36", 3)>>, clients |-> 30,
     required_clients |-> <<"HP Printer">>],
    [name |-> "Branch-Miami", model |-> "MX68", switches |-> <<MC("MS120-24", 1)>>, aps |-> <<MC("MR36", 3)>>, clients |-> 30,
     required_clients |-> <<"HP Printer", "Samsung TV">>],
    [name |-> "Branch-Dallas", model |-> "MX68W", switches |-> <<MC("MS120-24", 1)>>, aps |-> <<MC("MR36", 3)>>, sensors |-> <<MC("MT10", 2)>>, clients |-> 30,
     required_clients |-> <<"HP Printer">>],
    [name |-> "Branch-Phoenix", model |-> "MX68W", switches |-> <<>>, aps |-> <<MC("MR33", 2)>>, clients |-> 20],
    [name |-> "Branch-Portland", model |-> "MX68W", switches |-> <<>>, aps |-> <<MC("MR33", 2)>>, clients |-> 20],
    [name |-> "Branch-Minneapolis", model |-> "MX67", switches |-> <<>>, aps |-> <<MC("MR33", 2)>>, clients |-> 18],
    [name |-> "Branch-Detroit", model |-> "MX67", switches |-> <<>>, aps |-> <<MC("MR33", 2)>>, clients |-> 18],
    [name |-> "Branch-Philly", model |-> "MX67", switches |-> <<>>, aps |-> <<MC("MR33", 2)>>, clients |-> 18],
    [name |-> "Remote-SanDiego", model |-> "MX67C", cellular |-> <<[model |-> "MG41"]>>, switches |-> <<>>, aps |-> <<MC("MR30H", 1)>>, clients |-> 10],
    [name |-> "Remote-Houston", model |-> "MX67C", cellular |-> <<[model |-> "MG41"]>>, switches |-> <<>>, aps |-> <<MC("MR30H", 1)>>, clients |-> 10],
    [name |-> "Remote-Charlotte", model |-> "MX67C", cellular |-> <<[model |-> "MG41"]>>, switches |-> <<>>, aps |-> <<MC("MR30H", 1)>>, clients |-> 8],
    [name |-> "Remote-SaltLake", model |-> "MX67C", cellular |-> <<[model |-> "MG41"]>>, switches |-> <<>>, aps |-> <<>>, clients |-> 5],
    [name |-> "Remote-Warehouse", model |-> "MX67C", cellular |-> <<[model |-> "MG21"]>>, switches |-> <<>>, aps |-> <<>>, cameras |-> <<MC("MV72", 6), MC("MV63", 4)>>, sensors |-> <<MC("MT14", 8), MC("MT12", 4)>>, clients |-> 3] >>

\* _get_product_types
get_product_types(config) ==
    <<"appliance">>
    \o (IF Get(config, "switches", <<>>) # <<>> THEN <<"switch">> ELSE <<>>)
    \o (IF Get(config, "aps", <<>>) # <<>> THEN <<"wireless">> ELSE <<>>)
    \o (IF Get(config, "cellular", <<>>) # <<>> THEN <<"cellularGateway">> ELSE <<>>)
    \o (IF Get(config, "cameras", <<>>) # <<>> THEN <<"camera">> ELSE <<>>)
    \o (IF Get(config, "sensors", <<>>) # <<>> THEN <<"sensor">> ELSE <<>>)

\* Every entry of a config list with the given keys set (lines 218-232).
WithKeys(entries, keys) == [j \in 1..Len(entries) |-> keys @@ entries[j]]

\* dev_config of a branch (lines 208-232)
branch_dev_config(branch_config) ==
    [appliances |-> <<[model |-> branch_config.model, name |-> branch_config.name \o "-MX", tags |-> <<"spoke", "security-appliance">>]>>,
     switches |-> WithKeys(Get(branch_config, "switches", <<>>), [name_prefix |-> branch_config.name \o "-SW", tags |-> <<"switch", "network-infrastructure">>]),
     wireless |-> WithKeys(Get(branch_config, "aps", <<>>), [name_prefix |-> branch_config.name \o "-AP", tags |-> <<"wireless-ap", "network-infrastructure">>]),
     cellular |-> WithKeys(Get(branch_config, "cellular", <<>>), [name |-> branch_config.name \o "-MG", tags |-> <<"cellular-gateway", "wan-backup">>]),
     cameras |-> WithKeys(Get(branch_config, "cameras", <<>>), [name_prefix |-> branch_config.name \o "-CAM", tags |-> <<"camera", "security">>]),
     sensors |-> WithKeys(Get(branch_config, "sensors", <<>>), [name_prefix |-> branch_config.name \o "-SENSOR", tags |-> <<"sensor", "iot">>])]

\* The location and the network id of branch i (from 0), lines 192-193.
branch_location(i) == US_LOCATIONS[((i + 1) % Len(US_LOCATIONS)) + 1]

branch_network_id(i) == "N_BR" \o Pad3(i + 1)

\* The VLANs of the HQ site (lines 106-110) and of branch i (lines 247-251).
hq_vlan_types == <<"corporate", "guest", "voice", "iot", "management", "server">>
hq_base_third_octet == 10
branch_vlan_types(branch_config) == IF branch_config.clients > 20 THEN <<"corporate", "guest", "voice">> ELSE <<"corporate", "guest">>
branch_base_third_octet_step2(i) == 20 + i * 2
branch_base_third_octet(i) == 20 + i * 5

\* The hubs of a branch's VPN config (line 263).
branch_hubs_previous_site(network_id) == <<[hubId |-> IF network_id = branch_network_id(0) THEN hq_network_id ELSE branch_network_id(0), useDefaultRoute |-> TRUE]>>
branch_hubs(network_id) == <<[hubId |-> hq_network_id, useDefaultRoute |-> TRUE]>>

\* generate_hub_spoke_topology from the call to the end of the HQ site (lines 27-145).
CallHubSpoke ==
    /\ CanCall
    /\ \E seed \in CallSeeds("hub_spoke") :
       \E org \in {generate_organization(construct_generators(seed), "883652", "Acme Corporation", "North America")} :
       \E hq_network \in {generate_network(hq_network_id, "883652", "HQ-Campus", <<"appliance", "switch", "wireless", "camera", "sensor">>, US_LOCATIONS[1].tz, <<"hub", "headquarters", "campus">>, "Corporate headquarters - Hub site for all VPN connections")} :
       \E frame \in {[pc |-> "branches", name |-> "hub_spoke", seed |-> seed, org_id |-> "883652", i |-> 0, g |-> org.g,
                      store |-> [HubSpokeStorage EXCEPT !.organizations = <<org.v>>, !.networks = <<hq_network>>]]} :
       \E hq \in {generate_devices_for_network(org.g, clock, hq_network_id, "883652", US_LOCATIONS[1], hq_device_config, 10)} :
          IF Unpacks(hq.v, 3)
          THEN \E hq_vlans \in {generate_vlans_for_network(hq.g, hq_network_id, hq_vlan_types, hq_base_third_octet)} :
               \E hq_vlan_profile \in {generate_vlan_profile(hq_network_id, "hq-standard", "HQ Standard", <<"Corporate", "Guest", "Voice">>, TRUE)} :
               \E hq_vpn \in {generate_vpn_config(hq_network_id, "hub", VpnSubnets(hq_vlans.v), <<>>)} :
               \E hq_clients \in {generate_clients_for_network(hq_vlans.g, clock, hq_network_id, hq_vlans.v, 200, hq.v[1], hq_required_manufacturers)} :
                  /\ Unpacks(hq_clients.v, 2)
                  /\ asm' = [frame EXCEPT !.g = hq_clients.g,
                                          !.store.devices = @ \o hq.v[1],
                                          !.store.device_availabilities = @ \o hq.v[2],
                                          !.store.device_statuses = @ \o hq.v[3],
                                          !.store.vlans = @ \o hq_vlans.v,
                                          !.store.vlan_profiles = Append(@, hq_vlan_profile),
                                          !.store.vpn_configs = Append(@, [network_id |-> hq_network_id, config |-> hq_vpn]),
                                          !.store.network_clients = @ \o hq_clients.v[1],
                                          !.store.device_clients = Update(@, hq_clients.v[2])]
                  /\ UNCHANGED outcomes
          ELSE /\ asm' = Idle
               /\ outcomes' = Append(outcomes, Raised(frame, UnpackError(3)))
    /\ UNCHANGED <<val, api, db, clock, dgen, cgen>>

\* One pass through the branch loop (lines 191-285).
HubSpokeBranch ==
    /\ asm.pc = "branches"
    /\ asm.name = "hub_spoke"
    /\ asm.i < Len(branch_configs)
    /\ \E branch_config \in {branch_configs[asm.i + 1]}, location \in {branch_location(asm.i)}, network_id \in {branch_network_id(asm.i)} :
       \E branch_network \in {generate_network(network_id, asm.org_id, branch_config.name, get_product_types(branch_config), location.tz, <<"spoke", "branch">>, "Branch office in " \o location.city \o ", " \o location.state)} :
       \E branch \in {generate_devices_for_network(asm.g, clock, network_id, asm.org_id, location, branch_dev_config(branch_config), 20 + asm.i)} :
          IF Unpacks(branch.v, 3)
          THEN \E branch_vlans \in {generate_vlans_for_network(branch.g, network_id, branch_vlan_types(branch_config), branch_base_third_octet(asm.i))} :
               \E branch_vpn \in {generate_vpn_config(network_id, "spoke", VpnSubnets(branch_vlans.v), branch_hubs(network_id))} :
               \E cellular_pool \in {generate_cellular_subnet_pool(network_id, <<10, 200 + asm.i, 0, 0>>, 16)} :
               \E branch_clients \in {generate_clients_for_network(branch_vlans.g, clock, network_id, branch_vlans.v, branch_config.clients, branch.v[1], Get(branch_config, "required_clients", <<>>))} :
                  /\ Unpacks(branch_clients.v, 2)
                  /\ asm' = [asm EXCEPT !.i = asm.i + 1, !.g = branch_clients.g,
                                        !.store.networks = Append(@, branch_network),
                                        !.store.devices = @ \o branch.v[1],
                                        !.store.device_availabilities = @ \o branch.v[2],
                                        !.store.device_statuses = @ \o branch.v[3],
                                        !.store.vlans = @ \o branch_vlans.v,
                                        !.store.vpn_configs = Append(@, [network_id |-> network_id, config |-> branch_vpn]),
                                        !.store.cellular_subnet_pools = IF Get(branch_config, "cellular", <<>>) # <<>>
                                                                        THEN Append(@, [network_id |-> network_id, config |-> cellular_pool])
                                                                        ELSE @,
                                        !.store.network_clients = @ \o branch_clients.v[1],
                                        !.store.device_clients = Update(@, branch_clients.v[2])]
                  /\ UNCHANGED outcomes
          ELSE /\ asm' = Idle
               /\ outcomes' = Append(outcomes, Raised(asm, UnpackError(3)))
    /\ UNCHANGED <<val, api, db, clock, dgen, cgen>>

\* The aggregate generate_hub_spoke_topology returns (lines 290-311).
HubSpokeTopology(store) ==
    [topology_name |-> "hub_spoke",
     description |-> "Enterprise hub-spoke VPN topology with HQ campus and 20 branch offices",
     stats |-> Stats(store)] @@ store

\* After the last branch the call returns.
HubSpokeReturn ==
    /\ asm.pc = "branches"
    /\ asm.name = "hub_spoke"
    /\ asm.i = Len(branch_configs)
    /\ outcomes' = Append(outcomes, Returned(asm, HubSpokeTopology(asm.store)))
    /\ asm' = Idle
    /\ UNCHANGED <<val, api, db, clock, dgen, cgen>>

(***************************************************************************)
(* seed_data/topologies/mesh.py                                            *)
(***************************************************************************)
\* Results storage (lines 45-54): no device_statuses list.
MeshStorage ==
    [organizations |-> <<>>, networks |-> <<>>, devices |-> <<>>,
     device_availabilities |-> <<>>,
     vlans |-> <<>>, vlan_profiles |-> <<>>, network_clients |-> <<>>,
     device_clients |-> <<>>, vpn_configs |-> <<>>, cellular_subnet_pools |-> <<>>]

DC_CONFIGS == <<
    [name |-> "DC-Primary-East", location_idx |-> 1, tier |-> "primary"],
    [name |-> "DC-Primary-West", location_idx |-> 0, tier |-> "primary"],
    [name |-> "DC-Secondary-Central", location_idx |-> 2, tier |-> "secondary"],
    [name |-> "DC-Secondary-South", location_idx |-> 5, tier |-> "secondary"],
    [name |-> "DC-Edge-Northwest", location_idx |-> 4, tier |-> "edge"],
    [name |-> "DC-Edge-Southwest", location_idx |-> 3, tier |-> "edge"],
    [name |-> "DC-Edge-Northeast", location_idx |-> 7, tier |-> "edge"],
    [name |-> "DC-Edge-Southeast", location_idx |-> 9, tier |-> "edge"] >>

\* device_counts by tier (lines 78-108)
device_counts(tier) ==
    CASE tier = "primary" -> [mx_count |-> 2, core_sw_count |-> 4, dist_sw_count |-> 8, acc_sw_count |-> 16, ap_count |-> 30, mg_count |-> 2, client_count |-> 300]
      [] tier = "secondary" -> [mx_count |-> 2, core_sw_count |-> 2, dist_sw_count |-> 4, acc_sw_count |-> 8, ap_count |-> 15, mg_count |-> 1, client_count |-> 180]
      [] OTHER -> [mx_count |-> 1, core_sw_count |-> 1, dist_sw_count |-> 2, acc_sw_count |-> 4, ap_count |-> 8, mg_count |-> 1, client_count |-> 100]

\* str.capitalize() of a tier
Capitalize(s) == Upper(SubSeq(s, 1, 1)) \o Lower(SubSeq(s, 2, Len(s)))

\* dev_config of a data center (lines 123-140)
dc_dev_config(dc_config) ==
    LET counts == device_counts(dc_config.tier)
    IN  [appliances |-> [j \in 1..counts.mx_count |-> [model |-> "MX450", name |-> dc_config.name \o "-MX-" \o Pad2(j)]],
         switches |-> <<[model |-> "MS425-32", count |-> counts.core_sw_count, name_prefix |-> dc_config.name \o "-CORE", tags |-> <<"core">>],
                        [model |-> "MS350-48", count |-> counts.dist_sw_count, name_prefix |-> dc_config.name \o "-DIST", tags |-> <<"distribution">>],
                        [model |-> "MS250-48", count |-> counts.acc_sw_count, name_prefix |-> dc_config.name \o "-ACC", tags |-> <<"access">>]>>,
         wireless |-> <<[model |-> "MR57", count |-> counts.ap_count, name_prefix |-> dc_config.name \o "-AP", tags |-> <<"warehouse">>]>>,
         cellular |-> [j \in 1..counts.mg_count |-> [model |-> "MG41", name |-> dc_config.name \o "-MG-" \o Pad2(j)]]]

dc_network_id(i) == "N_DC" \o Pad3(i + 1)

\* generate_mesh_topology up to the data center loop (lines 40-70).
CallMesh ==
    /\ CanCall
    /\ \E seed \in CallSeeds("mesh") :
       \E org \in {generate_organization(construct_generators(seed), "994763", "Global DataCorp", "North America")} :
          asm' = [pc |-> "dcs", name |-> "mesh", seed |-> seed, org_id |-> "994763", i |-> 0, g |-> org.g,
                  network_ids |-> <<>>,
                  store |-> [MeshStorage EXCEPT !.organizations = <<org.v>>]]
    /\ UNCHANGED <<val, api, db, clock, dgen, cgen, outcomes>>

\* The VLANs of data center i (lines 154-158).
dc_vlan_types == <<"corporate", "server", "management", "voice", "iot", "guest">>
dc_base_third_octet(i) == i * 20

\* One pass through the data center loop (lines 72-187).  Line 143 binds what
\* generate_devices_for_network returns to two names.
MeshDc ==
    /\ asm.pc = "dcs"
    /\ asm.i < Len(DC_CONFIGS)
    /\ \E dc_config \in {DC_CONFIGS[asm.i + 1]}, network_id \in {dc_network_id(asm.i)} :
       \E location \in {US_LOCATIONS[dc_config.location_idx + 1]}, tier \in {dc_config.tier} :
       \E dc_network \in {generate_network(network_id, asm.org_id, dc_config.name, <<"appliance", "switch", "wireless", "cellularGateway">>, location.tz, <<"datacenter", tier, "region-" \o location.state>>, Capitalize(tier) \o " data center in " \o location.city \o ", " \o location.state)} :
       \E dc \in {generate_devices_for_network(asm.g, clock, network_id, asm.org_id, location, dc_dev_config(dc_config), 10 + asm.i * 10)} :
          IF Unpacks(dc.v, 2)
          THEN \E dc_vlans \in {generate_vlans_for_network(dc.g, network_id, dc_vlan_types, dc_base_third_octet(asm.i))} :
               \E dc_profile \in {generate_vlan_profile(network_id, "dc-" \o tier, "DC " \o Capitalize(tier) \o " Profile", <<"Servers", "Management", "Corporate">>, TRUE)} :
               \E cellular_pool \in {generate_cellular_subnet_pool(network_id, <<10, 220 + asm.i, 0, 0>>, 16)} :
               \E dc_clients \in {generate_clients_for_network(dc_vlans.g, clock, network_id, dc_vlans.v, device_counts(tier).client_count, dc.v[1], <<>>)} :
                  /\ Unpacks(dc_clients.v, 2)
                  /\ asm' = [asm EXCEPT !.i = asm.i + 1, !.g = dc_clients.g,
                                        !.network_ids = Append(@, network_id),
                                        !.store.networks = Append(@, dc_network),
                                        !.store.devices = @ \o dc.v[1],
                                        !.store.device_availabilities = @ \o dc.v[2],
                                        !.store.vlans = @ \o dc_vlans.v,
                                        !.store.vlan_profiles = Append(@, dc_profile),
                                        !.store.cellular_subnet_pools = Append(@, [network_id |-> network_id, config |-> cellular_pool]),
                                        !.store.network_clients = @ \o dc_clients.v[1],
                                        !.store.device_clients = Update(@, dc_clients.v[2])]
                  /\ UNCHANGED outcomes
          ELSE /\ asm' = Idle
               /\ outcomes' = Append(outcomes, Raised(asm, UnpackError(2)))
    /\ UNCHANGED <<val, api, db, clock, dgen, cgen>>

(***************************************************************************)
(* seed_data/topologies/multi_org.py                                       *)
(***************************************************************************)
NetCfg(name, type, location_idx) == [name |-> name, type |-> type, location_idx |-> location_idx]

ORG_CONFIGS == <<
    [org_id |-> "100001", name |-> "TechStart Inc", industry |-> "Technology Startup",
     networks |-> <<NetCfg("TechStart-HQ", "headquarters", 0), NetCfg("TechStart-Dev", "office", 4), NetCfg("TechStart-Sales-East", "branch", 1), NetCfg("TechStart-Sales-West", "branch", 3)>>],
    [org_id |-> "100002", name |-> "HealthPlus Medical", industry |-> "Healthcare",
     networks |-> <<NetCfg("HealthPlus-Hospital", "headquarters", 2), NetCfg("HealthPlus-Clinic-A", "branch", 8), NetCfg("HealthPlus-Clinic-B", "branch", 9), NetCfg("HealthPlus-Admin", "office", 10)>>],
    [org_id |-> "100003", name |-> "RetailMax Stores", industry |-> "Retail",
     networks |-> <<NetCfg("RetailMax-Corporate", "headquarters", 5), NetCfg("RetailMax-Store-101", "retail", 11), NetCfg("RetailMax-Store-102", "retail", 12), NetCfg("RetailMax-Warehouse", "warehouse", 6)>>],
    [org_id |-> "100004", name |-> "EduLearn Academy", industry |-> "Education",
     networks |-> <<NetCfg("EduLearn-Main-Campus", "headquarters", 7), NetCfg("EduLearn-Library", "office", 7), NetCfg("EduLearn-Dorms", "residential", 7), NetCfg("EduLearn-Athletics", "branch", 7)>>],
    [org_id |-> "100005", name |-> "FinanceFirst Bank", industry |-> "Financial Services",
     networks |-> <<NetCfg("FinanceFirst-HQ", "headquarters", 1), NetCfg("FinanceFirst-Branch-1", "branch", 13), NetCfg("FinanceFirst-Branch-2", "branch", 14), NetCfg("FinanceFirst-DC", "datacenter", 15)>>] >>

NETWORK_TYPE_CONFIGS ==
    [headquarters |-> [appliances |-> <<[model |-> "MX85"]>>, switches |-> <<MC("MS350-48", 2), MC("MS225-48", 4)>>, wireless |-> <<MC("MR56", 12)>>, clients |-> 150],
     office |-> [appliances |-> <<[model |-> "MX68"]>>, switches |-> <<MC("MS225-48", 2)>>, wireless |-> <<MC("MR46", 6)>>, clients |-> 60],
     branch |-> [appliances |-> <<[model |-> "MX67"]>>, switches |-> <<MC("MS120-24", 1)>>, wireless |-> <<MC("MR36", 3)>>, clients |-> 30],
     retail |-> [appliances |-> <<[model |-> "MX68W"]>>, switches |-> <<MC("MS120-8", 1)>>, wireless |-> <<MC("MR33", 4)>>, clients |-> 40],
     warehouse |-> [appliances |-> <<[model |-> "MX75"]>>, switches |-> <<MC("MS225-48", 3)>>, wireless |-> <<MC("MR57", 15)>>, cellular |-> <<[model |-> "MG41"]>>, clients |-> 80],
     residential |-> [appliances |-> <<[model |-> "MX68W"]>>, switches |-> <<MC("MS225-48", 2)>>, wireless |-> <<MC("MR46", 20)>>, clients |-> 200],
     datacenter |-> [appliances |-> <<[model |-> "MX450"]>>, switches |-> <<MC("MS425-32", 2), MC("MS350-48", 4)>>, wireless |-> <<MC("MR57", 4)>>, cellular |-> <<[model |-> "MG41"]>>, clients |-> 50]]

\* product_types of a network (lines 197-203)
multi_org_product_types(type_config) ==
    <<"appliance">>
    \o (IF Get(type_config, "switches", <<>>) # <<>> THEN <<"switch">> ELSE <<>>)
    \o (IF Get(type_config, "wireless", <<>>) # <<>> THEN <<"wireless">> ELSE <<>>)
    \o (IF Get(type_config, "cellular", <<>>) # <<>> THEN <<"cellularGateway">> ELSE <<>>)

\* dev_config of a network (lines 218-235)
multi_org_dev_config(net_config, type_config) ==
    [appliances |-> WithKeys(Get(type_config, "appliances", <<>>), [name |-> net_config.name \o "-MX"]),
     switches |-> WithKeys(Get(type_config, "switches", <<>>), [name_prefix |-> net_config.name \o "-SW"]),
     wireless |-> WithKeys(Get(type_config, "wireless", <<>>), [name_prefix |-> net_config.name \o "-AP"]),
     cellular |-> WithKeys(Get(type_config, "cellular", <<>>), [name |-> net_config.name \o "-MG"])]

\* vlan_types of a network (lines 249-255)
multi_org_vlan_types(net_type) ==
    IF net_type \in {"headquarters", "datacenter"} THEN <<"corporate", "guest", "voice", "server", "management">>
    ELSE IF net_type = "residential" THEN <<"corporate", "guest", "iot">>
    ELSE IF net_type = "retail" THEN <<"corporate", "guest", "iot">>
    ELSE <<"corporate", "guest">>

multi_org_network_id(org_id, network_counter) == "N_" \o org_id \o "_" \o Pad3(network_counter)

\* base_third_octet of the network numbered network_counter (line 260)
multi_org_base_third_octet(network_counter) == network_counter * 5

\* generate_multi_org_topology up to the organization loop (lines 142-161).
CallMultiOrg ==
    /\ CanCall
    /\ \E seed \in CallSeeds("multi_org") :
          asm' = [pc |-> "orgs", name |-> "multi_org", seed |-> seed, g |-> construct_generators(seed),
                  o |-> 0, n |-> 0, network_counter |-> 0, org_network_ids |-> <<>>, hq_network_id |-> None,
                  store |-> MeshStorage]
    /\ UNCHANGED <<val, api, db, clock, dgen, cgen, outcomes>>

\* One organization up to the loop over its networks (lines 163-178).
MultiOrgOrg ==
    /\ asm.pc = "orgs"
    /\ asm.o < Len(ORG_CONFIGS)
    /\ \E org_config \in {ORG_CONFIGS[asm.o + 1]} :
       \E org \in {generate_organization(asm.g, org_config.org_id, org_config.name, "North America")} :
          asm' = [asm EXCEPT !.pc = "networks", !.n = 0, !.g = org.g,
                             !.org_network_ids = Update(@, [id \in {org_config.org_id} |-> <<>>]),
                             !.hq_network_id = None,
                             !.store.organizations = Append(@, org.v)]
    /\ UNCHANGED <<val, api, db, clock, dgen, cgen, outcomes>>

\* One pass through the loop over an organization's networks (lines 183-281).
\* Line 238 binds what generate_devices_for_network returns to two names.
MultiOrgNetwork ==
    /\ asm.pc = "networks"
    /\ asm.n < Len(ORG_CONFIGS[asm.o + 1].networks)
    /\ \E org_config \in {ORG_CONFIGS[asm.o + 1]}, network_counter \in {asm.network_counter + 1} :
       \E net_config \in {org_config.networks[asm.n + 1]}, network_id \in {multi_org_network_id(org_config.org_id, network_counter)} :
       \E location \in {US_LOCATIONS[(net_config.location_idx % Len(US_LOCATIONS)) + 1]}, net_type \in {net_config.type} :
       \E type_config \in {Get(NETWORK_TYPE_CONFIGS, net_type, NETWORK_TYPE_CONFIGS["branch"])} :
       \E network \in {generate_network(network_id, org_config.org_id, net_config.name, multi_org_product_types(type_config), location.tz, <<Dashed(Lower(org_config.industry)), net_type>>, org_config.name \o " - " \o net_type \o " in " \o location.city)} :
       \E frame \in {[asm EXCEPT !.network_counter = network_counter,
                                 !.org_network_ids[org_config.org_id] = Append(@, network_id),
                                 !.hq_network_id = IF net_type = "headquarters" THEN network_id ELSE @,
                                 !.store.networks = Append(@, network)]} :
       \E net \in {generate_devices_for_network(asm.g, clock, network_id, org_config.org_id, location, multi_org_dev_config(net_config, type_config), network_counter)} :
          IF Unpacks(net.v, 2)
          THEN \E net_vlans \in {generate_vlans_for_network(net.g, network_id, multi_org_vlan_types(net_type), multi_org_base_third_octet(network_counter))} :
               \E cellular_pool \in {generate_cellular_subnet_pool(network_id, <<10, 230 + network_counter, 0, 0>>, 16)} :
               \E net_clients \in {generate_clients_for_network(net_vlans.g, clock, network_id, net_vlans.v, type_config.clients, net.v[1], <<>>)} :
                  /\ Unpacks(net_clients.v, 2)
                  /\ asm' = [frame EXCEPT !.n = asm.n + 1, !.g = net_clients.g,
                                          !.store.devices = @ \o net.v[1],
                                          !.store.device_availabilities = @ \o net.v[2],
                                          !.store.vlans = @ \o net_vlans.v,
                                          !.store.cellular_subnet_pools = IF Get(type_config, "cellular", <<>>) # <<>>
                                                                          THEN Append(@, [network_id |-> network_id, config |-> cellular_pool])
                                                                          ELSE @,
                                          !.store.network_clients = @ \o net_clients.v[1],
                                          !.store.device_clients = Update(@, net_clients.v[2])]
                  /\ UNCHANGED outcomes
          ELSE /\ asm' = Idle
               /\ outcomes' = Append(outcomes, Raised(frame, UnpackError(2)))
    /\ UNCHANGED <<val, api, db, clock, dgen, cgen>>

(***************************************************************************)
(* scripts/validate_topologies.py.  A run is the frame val: its position,  *)
(* the discovered topologies, the loop index, all_errors, and reports, the *)
(* list validate_topology returned for every topology it was called for.   *)
(* What generate_func(seed=42) does for a topology is an input of the run: *)
(* it raises, or it returns data.  The print statements are left out.      *)
(***************************************************************************)
Without(record, key) == [k \in DOMAIN record \ {key} |-> record[k]]

\* A small complete topology, and what else a generator may hand back.
ValidData ==
    [topology_name |-> "small",
     organizations |-> <<generate_organization(SeedRng(42), "883652", "Acme", "North America").v>>,
     networks |-> <<generate_network("N_1", "883652", "Site", <<"appliance">>, "America/Chicago", <<>>, "")>>,
     devices |-> ClientDevices("N_1", <<"appliance", "switch">>),
     vlans |-> generate_vlans_for_network(SeedRng(9), "N_1", <<"corporate">>, 20).v,
     network_clients |-> generate_clients_for_network(SeedRng(42), ClockBase, "N_1", <<>>, 1, <<>>, <<>>).v[1]]

GenerationResults ==
    { [outcome |-> "raised", error |-> UnpackError(2)],
      [outcome |-> "returned", data |-> Null],
      [outcome |-> "returned", data |-> ValidData],
      [outcome |-> "returned", data |-> Without(ValidData, "vlans")],
      [outcome |-> "returned", data |-> [ValidData EXCEPT !.devices = <<>>, !.topology_name = ""]],
      [outcome |-> "returned", data |-> [ValidData EXCEPT !.organizations = <<Without(ValidData.organizations[1], "api")>>, !.networks = <<Without(Without(ValidData.networks[1], "tags"), "url")>>]],
      [outcome |-> "returned", data |-> [Without(ValidData, "vlans") EXCEPT !.networks = <<Null>>]] }

\* `not data[field]`: the topology name is text, the other fields are lists.
Falsy(field, value) == IF field = "topology_name" THEN value = "" ELSE value = <<>>

\* `field not in x` of a None x
NoneTypeError == "argument of type 'NoneType' is not iterable"

required == <<"topology_name", "organizations", "networks", "devices", "vlans">>

\* The checked entity lists with the fields their first element must carry (lines 46-86).
EntityChecks ==
    << [list |-> "organizations", label |-> "Organization", fields |-> <<"id", "name", "url", "api", "cloud">>],
       [list |-> "networks", label |-> "Network", fields |-> <<"id", "organizationId", "name", "productTypes", "timeZone", "tags", "url", "isBoundToConfigTemplate">>],
       [list |-> "devices", label |-> "Device", fields |-> <<"serial", "name", "model", "networkId", "mac", "productType", "firmware", "lanIp", "tags", "lat", "lng">>],
       [list |-> "vlans", label |-> "VLAN", fields |-> <<"id", "networkId", "name", "subnet", "applianceIp">>],
       [list |-> "network_clients", label |-> "Client", fields |-> <<"id", "mac", "ip", "description", "manufacturer", "deviceTypePrediction", "status">>] >>

\* One error for every required top-level field that is missing or empty (lines 32-37).
RECURSIVE RequiredErrors(_, _, _)
RequiredErrors(name, data, k) ==
    IF k > Len(required) THEN <<>>
    ELSE (IF required[k] \notin DOMAIN data THEN <<name \o ": Missing required field \"" \o required[k] \o "\"">>
          ELSE IF Falsy(required[k], data[required[k]]) THEN <<name \o ": Field \"" \o required[k] \o "\" is empty">>
          ELSE <<>>)
         \o RequiredErrors(name, data, k + 1)

\* One error for every field of the list the record lacks.
RECURSIVE MissingFields(_, _, _, _)
MissingFields(prefix, record, fields, k) ==
    IF k > Len(fields) THEN <<>>
    ELSE (IF fields[k] \notin DOMAIN record THEN <<prefix \o " missing field \"" \o fields[k] \o "\"">> ELSE <<>>)
         \o MissingFields(prefix, record, fields, k + 1)

\* The checks of the first element of every entity list from the k-th on;
\* an element that is None raises, which ends the checks with the error of
\* the except clause (lines 111-112).
RECURSIVE CheckEntities(_, _, _)
CheckEntities(name, data, k) ==
    IF k > Len(EntityChecks) THEN <<>>
    ELSE IF EntityChecks[k].list \in DOMAIN data /\ data[EntityChecks[k].list] # <<>>
    THEN IF data[EntityChecks[k].list][1] = Null
         THEN <<name \o ": " \o NoneTypeError>>
         ELSE MissingFields(name \o ": " \o EntityChecks[k].label, data[EntityChecks[k].list][1], EntityChecks[k].fields, 1)
              \o CheckEntities(name, data, k + 1)
    ELSE CheckEntities(name, data, k + 1)

\* validate_topology: the errors of one topology, given what its generator did.
validate_topology(name, result) ==
    IF result.outcome = "raised" THEN <<name \o ": " \o result.error>>
    ELSE IF result.data = Null THEN <<name \o ": " \o NoneTypeError>>
    ELSE RequiredErrors(name, result.data, 1) \o CheckEntities(name, result.data, 1)

\* The topology files of seed_data/topologies, in every order glob may list them.
TopologyFiles == {"hub_spoke", "mesh", "multi_org"}

\* topologies = discover_topologies(); all_errors = [] (lines 141-144)
Discover ==
    /\ val.pc = "start"
    /\ \E topologies \in { t \in [1..Cardinality(TopologyFiles) -> TopologyFiles] : \A i, j \in DOMAIN t : i # j => t[i] # t[j] } :
          val' = [pc |-> "loop", topologies |-> topologies, k |-> 0, all_errors |-> <<>>, reports |-> <<>>]
    /\ UNCHANGED <<clock, dgen, cgen, asm, outcomes, api, db>>

\* The exit status counts only the errors of the last topology.
ValidatorExitOnLastReport ==
    /\ val.pc = "loop"
    /\ val.k = Len(val.topologies)
    /\ val' = [pc |-> "exited", exit_code |-> IF val.reports[Len(val.reports)].errors # <<>> THEN 1 ELSE 0] @@ val
    /\ UNCHANGED <<clock, dgen, cgen, asm, outcomes, api, db>>

\* One pass through the loop of main (lines 146-148).
ValidateTopology ==
    /\ val.pc = "loop"
    /\ val.k < Len(val.topologies)
    /\ \E result \in GenerationResults :
       \E errors \in {validate_topology(val.topologies[val.k + 1], result)} :
          val' = [val EXCEPT !.k = val.k + 1,
                             !.all_errors = @ \o errors,
                             !.reports = Append(@, [name |-> val.topologies[val.k + 1], errors |-> errors])]
    /\ UNCHANGED <<clock, dgen, cgen, asm, outcomes, api, db>>

\* sys.exit(1) when all_errors is not empty, sys.exit(0) otherwise (lines 152-161).
ValidatorExit ==
    /\ val.pc = "loop"
    /\ val.k = Len(val.topologies)
    /\ val' = [pc |-> "exited", exit_code |-> IF val.all_errors # <<>> THEN 1 ELSE 0] @@ val
    /\ UNCHANGED <<clock, dgen, cgen, asm, outcomes, api, db>>

InitValidator ==
    /\ clock = ClockBase
    /\ val = [pc |-> "start"]
    /\ dgen = Idle /\ cgen = Idle /\ asm = Idle /\ outcomes = <<>> /\ api = Idle /\ db = Idle

NextValidator == Discover \/ ValidateTopology \/ ValidatorExit

SpecValidator == InitValidator /\ [][NextValidator]_vars

(***************************************************************************)
(* src/app.py, middleware/auth.py, handlers/*.py, db/dynamodb.py.          *)
(*  - db is what the Lambda reaches over the network: the secret store     *)
(*    (secrets_up, secret), the config table (config) and the data table   *)
(*    (table_up, data).  A "#"-joined key "a#b#c" is the tuple <<a, b, c>>.*)
(*    The items of the data table are a list kept in key order.            *)
(*  - api is one Lambda container: its environment (default_topology),     *)
(*    the lru_cache of the secret (cached_key) and its last exchange: the  *)
(*    event, the response, the data handler that ran and the reads it      *)
(*    issued.  A request path "/a/b/c" is the tuple <<"a", "b", "c">>.     *)
(*  - An exception is the record [raised |-> text].                        *)
(***************************************************************************)
EmptyDict == <<>>

\* `not x` of a text that may be None
Not(x) == x = None \/ x = ""

ENTITY_ORGANIZATION == "organization"
ENTITY_NETWORK == "network"
ENTITY_DEVICE == "device"
ENTITY_DEVICE_AVAILABILITY == "device_availability"
ENTITY_VLAN == "vlan"
ENTITY_VLAN_PROFILE == "vlan_profile"
ENTITY_CLIENT == "client"
ENTITY_NETWORK_CLIENT == "network_client"
ENTITY_VPN_CONFIG == "vpn_config"
ENTITY_CELLULAR_SUBNET_POOL == "cellular_subnet_pool"

\* The reads a handler issues, as the trace keeps them.
ReadEntity(topology, entity_type, entity_id) == [op |-> "get_entity", topology |-> topology, entity_type |-> entity_type, id |-> entity_id]
ReadChildren(topology, parent_type, parent_id, entity_type) == [op |-> "get_entities_by_parent", topology |-> topology, parent_type |-> parent_type, parent_id |-> parent_id, entity_type |-> entity_type]
ReadAll(topology, entity_type) == [op |-> "get_entities", topology |-> topology, entity_type |-> entity_type]

DataOf(items) == [j \in DOMAIN items |-> items[j].data]

\* DynamoDBClient.get_entities: an exception of the client is logged and gives [].
get_entities(store, topology, entity_type) ==
    IF ~store.table_up THEN <<>>
    ELSE DataOf(SelectSeq(store.data, LAMBDA item : item.PK = <<topology, entity_type>>))

\* DynamoDBClient.get_entity: an exception of the client is logged and gives None.
get_entity(store, topology, entity_type, entity_id) ==
    IF ~store.table_up THEN Null
    ELSE IF \E j \in DOMAIN store.data : store.data[j].PK = <<topology, entity_type>> /\ store.data[j].SK = entity_id
    THEN store.data[CHOOSE j \in DOMAIN store.data : store.data[j].PK = <<topology, entity_type>> /\ store.data[j].SK = entity_id].data
    ELSE Null

\* DynamoDBClient.get_entities_by_parent: the query of GSI1.
get_entities_by_parent(store, topology, parent_type, parent_id, entity_type) ==
    IF ~store.table_up THEN <<>>
    ELSE DataOf(SelectSeq(store.data, LAMBDA item : "GSI1PK" \in DOMAIN item /\ item.GSI1PK = <<topology, parent_type, parent_id>> /\ item.GSI1SK[1] = entity_type))

\* The body of a response that is a JSON array.
JsonArray(items) == [array |-> items]

\* _response
Response(status_code, body) == [statusCode |-> status_code, body |-> body]

\* What a data handler hands back, with its name and the reads it issued.
Handled(handler, response, reads) == [response |-> response, handler |-> handler, reads |-> reads]

NotFound(label, id) == Response(404, [errors |-> <<label \o " " \o id \o " not found">>])

\* organizations.get_organizations
get_organizations(store, topology) ==
    Handled("get_organizations", Response(200, JsonArray(get_entities(store, topology, ENTITY_ORGANIZATION))), <<ReadAll(topology, ENTITY_ORGANIZATION)>>)

\* A handler that verifies the parent and then queries its children
\* (organizations.py lines 75-86, 106-117, 136-147; networks.py lines 56-67,
\* 85-96; devices.py lines 52-70).
get_children(handler, store, topology, parent_type, label, parent_id, entity_type) ==
    IF get_entity(store, topology, parent_type, parent_id) = Null
    THEN Handled(handler, NotFound(label, parent_id), <<ReadEntity(topology, parent_type, parent_id)>>)
    ELSE Handled(handler, Response(200, JsonArray(get_entities_by_parent(store, topology, parent_type, parent_id, entity_type))),
                 <<ReadEntity(topology, parent_type, parent_id), ReadChildren(topology, parent_type, parent_id, entity_type)>>)

get_organization_networks(store, topology, organization_id) == get_children("get_organization_networks", store, topology, ENTITY_ORGANIZATION, "Organization", organization_id, ENTITY_NETWORK)

get_organization_devices(store, topology, organization_id) == get_children("get_organization_devices", store, topology, ENTITY_ORGANIZATION, "Organization", organization_id, ENTITY_DEVICE)

get_organization_devices_availabilities(store, topology, organization_id) == get_children("get_organization_devices_availabilities", store, topology, ENTITY_ORGANIZATION, "Organization", organization_id, ENTITY_DEVICE_AVAILABILITY)

get_network_vlans(store, topology, network_id) == get_children("get_network_vlans", store, topology, ENTITY_NETWORK, "Network", network_id, ENTITY_VLAN)

get_network_vlan_profiles(store, topology, network_id) == get_children("get_network_vlan_profiles", store, topology, ENTITY_NETWORK, "Network", network_id, ENTITY_VLAN_PROFILE)

get_device_clients(store, topology, serial, query_params) == get_children("get_device_clients", store, topology, ENTITY_DEVICE, "Device", serial, ENTITY_CLIENT)

\* int(text): decimal digits with an optional sign, otherwise ValueError.
RECURSIVE DigitsValue(_)
DigitsValue(s) == IF Len(s) = 0 THEN 0 ELSE 10 * DigitsValue(SubSeq(s, 1, Len(s) - 1)) + DigitOf[CharAt(s, Len(s))]

int(text) ==
    IF IsDigits(text) THEN [v |-> DigitsValue(text)]
    ELSE IF Len(text) > 1 /\ CharAt(text, 1) \in {"-", "+"} /\ IsDigits(SubSeq(text, 2, Len(text)))
    THEN [v |-> IF CharAt(text, 1) = "-" THEN 0 - DigitsValue(SubSeq(text, 2, Len(text))) ELSE DigitsValue(SubSeq(text, 2, Len(text)))]
    ELSE [raised |-> "invalid literal for int() with base 10: '" \o text \o "'"]

\* list[start:stop] for start >= 0
Slice(list, start, stop) ==
    LET n == Len(list)
        hi == IF stop < 0 THEN (IF n + stop < 0 THEN 0 ELSE n + stop) ELSE IF stop > n THEN n ELSE stop
        lo == IF start > n THEN n ELSE start
    IN  IF lo >= hi THEN <<>> ELSE SubSeq(list, lo + 1, hi)

\* start_idx of the loop over the clients (networks.py lines 135-139)
start_idx(clients, starting_after) ==
    IF \E i \in DOMAIN clients : Get(clients[i], "id", None) = starting_after
    THEN CHOOSE i \in DOMAIN clients : Get(clients[i], "id", None) = starting_after /\ \A j \in 1..(i - 1) : Get(clients[j], "id", None) # starting_after
    ELSE 0

\* networks.get_network_clients
get_network_clients(store, topology, network_id, query_params) ==
    IF get_entity(store, topology, ENTITY_NETWORK, network_id) = Null
    THEN Handled("get_network_clients", NotFound("Network", network_id), <<ReadEntity(topology, ENTITY_NETWORK, network_id)>>)
    ELSE Let(get_entities_by_parent(store, topology, ENTITY_NETWORK, network_id, ENTITY_NETWORK_CLIENT), LAMBDA clients :
         Let(<<ReadEntity(topology, ENTITY_NETWORK, network_id), ReadChildren(topology, ENTITY_NETWORK, network_id, ENTITY_NETWORK_CLIENT)>>, LAMBDA reads :
         Let(IF "perPage" \in DOMAIN query_params THEN int(query_params.perPage) ELSE [v |-> 1000], LAMBDA per_page :
         Let(Get(query_params, "startingAfter", None), LAMBDA starting_after :
         IF "raised" \in DOMAIN per_page
         THEN [raised |-> per_page.raised, handler |-> "get_network_clients", reads |-> reads]
         ELSE IF ~Not(starting_after)
         THEN Handled("get_network_clients", Response(200, JsonArray(Slice(clients, start_idx(clients, starting_after), start_idx(clients, starting_after) + per_page.v))), reads)
         ELSE Handled("get_network_clients", Response(200, JsonArray(Slice(clients, 0, per_page.v))), reads)))))

\* A handler that verifies the network and then reads the one item kept
\* under the network's id (networks.py lines 157-178, 194-211).
get_network_item(handler, store, topology, network_id, entity_type, default) ==
    IF get_entity(store, topology, ENTITY_NETWORK, network_id) = Null
    THEN Handled(handler, NotFound("Network", network_id), <<ReadEntity(topology, ENTITY_NETWORK, network_id)>>)
    ELSE Handled(handler,
                 Response(200, IF get_entity(store, topology, entity_type, network_id) = Null THEN default ELSE get_entity(store, topology, entity_type, network_id)),
                 <<ReadEntity(topology, ENTITY_NETWORK, network_id), ReadEntity(topology, entity_type, network_id)>>)

get_cellular_gateway_subnet_pool(store, topology, network_id) == get_network_item("get_cellular_gateway_subnet_pool", store, topology, network_id, ENTITY_CELLULAR_SUBNET_POOL, [deploymentMode |-> "passthrough", cidr |-> "", mask |-> 0, subnets |-> <<>>])

get_site_to_site_vpn(store, topology, network_id) == get_network_item("get_site_to_site_vpn", store, topology, network_id, ENTITY_VPN_CONFIG, [mode |-> "none", hubs |-> <<>>, subnets |-> <<>>])

\* re.match(r"/api/v1/<kind>/([^/]+)/<tail>", path): the pattern is not
\* anchored at its end, so the last segment of the tail is a prefix.
Matches(path, kind, tail) ==
    /\ Len(path) >= 4 + Len(tail)
    /\ SubSeq(path, 1, 3) = <<"api", "v1", kind>>
    /\ path[4] # ""
    /\ \A k \in 1..(Len(tail) - 1) : path[4 + k] = tail[k]
    /\ StartsWith(path[4 + Len(tail)], tail[Len(tail)])

\* path_params.get(name) or match.group(1)
PathId(path, path_params, name) == IF Not(Get(path_params, name, None)) THEN path[4] ELSE path_params[name]

\* _route_request
route_request(store, path, path_params, query_params, topology) ==
    IF path = <<"api", "v1", "organizations">> THEN get_organizations(store, topology)
    ELSE IF Matches(path, "organizations", <<"networks">>) THEN get_organization_networks(store, topology, PathId(path, path_params, "organizationId"))
    ELSE IF Matches(path, "organizations", <<"devices", "availabilities">>) THEN get_organization_devices_availabilities(store, topology, PathId(path, path_params, "organizationId"))
    ELSE IF Matches(path, "organizations", <<"devices">>) THEN get_organization_devices(store, topology, PathId(path, path_params, "organizationId"))
    ELSE IF Matches(path, "networks", <<"appliance", "vlans">>) THEN get_network_vlans(store, topology, PathId(path, path_params, "networkId"))
    ELSE IF Matches(path, "networks", <<"vlanProfiles">>) THEN get_network_vlan_profiles(store, topology, PathId(path, path_params, "networkId"))
    ELSE IF Matches(path, "networks", <<"clients">>) THEN get_network_clients(store, topology, PathId(path, path_params, "networkId"), query_params)
    ELSE IF Matches(path, "networks", <<"cellularGateway", "subnetPool">>) THEN get_cellular_gateway_subnet_pool(store, topology, PathId(path, path_params, "networkId"))
    ELSE IF Matches(path, "networks", <<"appliance", "vpn", "siteToSiteVpn">>) THEN get_site_to_site_vpn(store, topology, PathId(path, path_params, "networkId"))
    ELSE IF Matches(path, "devices", <<"clients">>) THEN get_device_clients(store, topology, PathId(path, path_params, "serial"), query_params)
    ELSE Handled(None, Response(404, [errors |-> <<"Endpoint not found">>]), <<>>)

\* _route_admin for GET requests: the list of topologies, the active
\* topology, or no such endpoint.
route_admin(store, method, path) ==
    IF path = <<"admin", "topologies">> /\ method = "GET"
    THEN Response(200, [topologies |-> store.config.topologies, active |-> store.config.active, count |-> Len(store.config.topologies)])
    ELSE IF path = <<"admin", "topology", "active">> /\ method = "GET"
    THEN Response(200, [active |-> store.config.active])
    ELSE Response(404, [errors |-> <<"Admin endpoint not found">>])

\* The query parameter wins over the header.
get_topology_query_first(headers, query_params, default_topology) ==
    IF ~Not(Get(query_params, "topology", None)) THEN query_params.topology
    ELSE IF ~Not(Get(headers, "x-mock-topology", None)) THEN headers["x-mock-topology"]
    ELSE default_topology

\* _get_topology; default_topology is os.environ.get("DEFAULT_TOPOLOGY", "hub_spoke")
get_topology(headers, query_params, default_topology) ==
    IF ~Not(Get(headers, "x-mock-topology", None)) THEN headers["x-mock-topology"]
    ELSE IF ~Not(Get(query_params, "topology", None)) THEN query_params.topology
    ELSE default_topology

\* The characters of the ASCII texts of the model.
AsciiChars == UpperAlpha \o LowerAlpha \o DecDigits \o " -_.:/"

AsciiCharSet == { CharAt(AsciiChars, j) : j \in 1..Len(AsciiChars) }

IsAscii(text) == \A i \in 1..Len(text) : CharAt(text, i) \in AsciiCharSet

\* secrets.compare_digest of two str: TypeError unless both are ASCII.
compare_digest(a, b) ==
    IF IsAscii(a) /\ IsAscii(b) THEN [v |-> a = b]
    ELSE [raised |-> "comparing strings with non-ASCII characters is not supported"]

\* _get_api_key_from_secrets_manager under lru_cache(maxsize=1): a result is
\* kept, an exception is not.
get_api_key_from_secrets_manager(store, cached_key) ==
    IF cached_key # None THEN [v |-> cached_key, cached_key |-> cached_key]
    ELSE IF store.secrets_up THEN [v |-> store.secret, cached_key |-> store.secret]
    ELSE [raised |-> "ClientError", cached_key |-> cached_key]

\* The key the request offers (auth.py lines 53-61).
offered_key(headers) ==
    IF ~Not(Get(headers, "x-cisco-meraki-api-key", None)) THEN headers["x-cisco-meraki-api-key"]
    ELSE IF StartsWith(Get(headers, "authorization", ""), "Bearer ") THEN SubSeq(headers["authorization"], 8, Len(headers["authorization"]))
    ELSE None

\* validate_api_key
validate_api_key(store, cached_key, headers) ==
    Let(offered_key(headers), LAMBDA api_key :
    IF Not(api_key)
    THEN [valid |-> FALSE, error |-> "Missing API key. Please include 'X-Cisco-Meraki-API-Key' header.", cached_key |-> cached_key]
    ELSE Let(get_api_key_from_secrets_manager(store, cached_key), LAMBDA required_key :
         IF "raised" \in DOMAIN required_key
         THEN [valid |-> FALSE, error |-> "API authentication unavailable", cached_key |-> required_key.cached_key]
         ELSE Let(compare_digest(api_key, required_key.v), LAMBDA same :
              IF "raised" \in DOMAIN same THEN [raised |-> same.raised, cached_key |-> required_key.cached_key]
              ELSE IF same.v THEN [valid |-> TRUE, cached_key |-> required_key.cached_key]
              ELSE [valid |-> FALSE, error |-> "Invalid API key", cached_key |-> required_key.cached_key])))

\* headers = {k.lower(): v for k, v in headers.items()}
LowerKeys(headers) ==
    Let({ <<Lower(k), k>> : k \in DOMAIN headers }, LAMBDA lowered :
    [l \in { p[1] : p \in lowered } |-> headers[(CHOOSE p \in lowered : p[1] = l)[2]]])

\* except Exception as e: the 500 response
InternalError(text) == Response(500, [errors |-> <<"Internal server error: " \o text>>])

\* The exchange a request leaves in the container.
Exchange(container, event, response, handler, reads, cached_key) ==
    [container EXCEPT !.cached_key = cached_key, !.exchange = [event |-> event, response |-> response, handler |-> handler, reads |-> reads]]

\* lambda_handler: the exchange it leaves and the key its container caches.
lambda_handler(store, container, event) ==
    IF event.path = <<"health">>
    THEN Exchange(container, event, Response(200, [status |-> "healthy", service |-> "mock-meraki-api"]), None, <<>>, container.cached_key)
    ELSE IF event.path # <<>> /\ StartsWith(event.path[1], "admin")
    THEN Exchange(container, event, route_admin(store, event.httpMethod, event.path), None, <<>>, container.cached_key)
    ELSE Let(LowerKeys(IF event.headers = Null THEN EmptyDict ELSE event.headers), LAMBDA headers :
         Let(IF event.queryStringParameters = Null THEN EmptyDict ELSE event.queryStringParameters, LAMBDA query_params :
         Let(validate_api_key(store, container.cached_key, headers), LAMBDA auth_result :
         IF "raised" \in DOMAIN auth_result THEN Exchange(container, event, InternalError(auth_result.raised), None, <<>>, auth_result.cached_key)
         ELSE IF ~auth_result.valid THEN Exchange(container, event, Response(401, [errors |-> <<auth_result.error>>]), None, <<>>, auth_result.cached_key)
         ELSE Let(route_request(store, event.path, IF event.pathParameters = Null THEN EmptyDict ELSE event.pathParameters, query_params, get_topology(headers, query_params, container.default_topology)), LAMBDA routed :
              IF "raised" \in DOMAIN routed THEN Exchange(container, event, InternalError(routed.raised), routed.handler, routed.reads, auth_result.cached_key)
              ELSE Exchange(container, event, routed.response, routed.handler, routed.reads, auth_result.cached_key)))))

(***************************************************************************)
(* SpecApi: one Lambda container that serves requests one after the other, *)
(* while the secret store and the data table come and go and the           *)
(* container is now and then replaced by a fresh one.  The tables hold two *)
(* seeded topologies whose entity ids differ.                              *)
(***************************************************************************)
\* An item of the data table as seed_dynamodb.create_item writes it.
Item(topology, entity_type, entity_id, data) == [PK |-> <<topology, entity_type>>, SK |-> entity_id, data |-> data]

ChildItem(topology, entity_type, entity_id, data, parent_type, parent_id) ==
    Item(topology, entity_type, entity_id, data) @@ [GSI1PK |-> <<topology, parent_type, parent_id>>, GSI1SK |-> <<entity_type, entity_id>>]

SeededItems(topology, org_id, network_id, serial) ==
    << Item(topology, ENTITY_ORGANIZATION, org_id, [id |-> org_id]),
       ChildItem(topology, ENTITY_NETWORK, network_id, [id |-> network_id, organizationId |-> org_id], ENTITY_ORGANIZATION, org_id),
       ChildItem(topology, ENTITY_DEVICE, serial, [serial |-> serial, networkId |-> network_id], ENTITY_ORGANIZATION, org_id),
       ChildItem(topology, ENTITY_DEVICE_AVAILABILITY, serial, [serial |-> serial, status |-> "online"], ENTITY_ORGANIZATION, org_id),
       ChildItem(topology, ENTITY_VLAN, network_id \o "_10", [id |-> "10", networkId |-> network_id], ENTITY_NETWORK, network_id),
       ChildItem(topology, ENTITY_NETWORK_CLIENT, "k1", [id |-> "k1", recentDeviceSerial |-> serial], ENTITY_NETWORK, network_id),
       ChildItem(topology, ENTITY_NETWORK_CLIENT, "k2", [id |-> "k2", recentDeviceSerial |-> serial], ENTITY_NETWORK, network_id),
       ChildItem(topology, ENTITY_NETWORK_CLIENT, "k3", [id |-> "k3", recentDeviceSerial |-> serial], ENTITY_NETWORK, network_id),
       ChildItem(topology, ENTITY_CLIENT, "k1", [id |-> "k1"], ENTITY_DEVICE, serial),
       ChildItem(topology, ENTITY_VPN_CONFIG, network_id, [mode |-> "hub", hubs |-> <<>>, subnets |-> <<>>], ENTITY_NETWORK, network_id) >>

Secret == "test-api-key-12345"

SeededStore ==
    [secrets_up |-> TRUE, secret |-> Secret, table_up |-> TRUE,
     config |-> [topologies |-> <<"hub_spoke", "mesh">>, active |-> "hub_spoke"],
     data |-> SeededItems("hub_spoke", "883652", "N_HQ001", "Q2AA-BBBB-CCCC") \o SeededItems("mesh", "994763", "N_DC001", "Q2DD-EEEE-FFFF")]

\* The requests.
Event(path, headers, query_params, path_params) == [httpMethod |-> "GET", path |-> path, headers |-> headers, queryStringParameters |-> query_params, pathParameters |-> path_params]

RightKey == "X-Cisco-Meraki-API-Key" :> Secret

KeyHeaders ==
    { Null, EmptyDict, RightKey,
      "x-cisco-meraki-api-key" :> Secret,
      "X-Cisco-Meraki-API-Key" :> "wrong-key",
      "X-Cisco-Meraki-API-Key" :> "clé",
      "Authorization" :> ("Bearer " \o Secret),
      "Authorization" :> "Bearer wrong-key",
      "Authorization" :> ("Basic " \o Secret),
      ("X-Cisco-Meraki-API-Key" :> "") @@ ("authorization" :> ("Bearer " \o Secret)) }

TopologyHeaders == { EmptyDict, "X-Mock-Topology" :> "mesh", "x-mock-topology" :> "mesh", "X-MOCK-TOPOLOGY" :> "hub_spoke", "X-Mock-Topology" :> "" }

TopologyQueries == { Null, [topology |-> "mesh"], [topology |-> "multi_org"], [topology |-> ""], [timespan |-> "86400"] }

PagingQueries == { [perPage |-> "2"], [perPage |-> "abc"], [perPage |-> "2", startingAfter |-> "k2"] }

\* Per kind of parent: an id of the hub_spoke topology and an id of the mesh topology.
Ids == [organizations |-> {"883652", "994763"}, networks |-> {"N_HQ001", "N_DC001"}, devices |-> {"Q2AA-BBBB-CCCC", "Q2DD-EEEE-FFFF"}]

\* The tails of the parent-scoped read endpoints, by the kind of the parent.
ParentEndpoints ==
    { <<"organizations", <<"networks">>>>, <<"organizations", <<"devices">>>>, <<"organizations", <<"devices", "availabilities">>>>,
      <<"networks", <<"appliance", "vlans">>>>, <<"networks", <<"clients">>>>, <<"networks", <<"vlanProfiles">>>>,
      <<"networks", <<"appliance", "vpn", "siteToSiteVpn">>>>, <<"networks", <<"cellularGateway", "subnetPool">>>>,
      <<"devices", <<"clients">>>> }

ParentPaths == { <<"api", "v1", e[1], id>> \o e[2] : e \in ParentEndpoints, id \in UNION {Ids[k] : k \in DOMAIN Ids} }

Events ==
    { Event(path, headers, Null, Null) :
        path \in { <<"health">>, <<"admin", "topologies">>, <<"admin", "nothing">>, <<"api", "v1", "organizations", "883652", "networks">> },
        headers \in KeyHeaders }
    \cup { Event(<<"api", "v1", "organizations">>, RightKey @@ headers, query_params, Null) :
             headers \in TopologyHeaders, query_params \in TopologyQueries }
    \cup { Event(path, RightKey @@ headers, Null, Null) :
             path \in { p \in ParentPaths : p[4] \in Ids[p[3]] }, headers \in { EmptyDict, "X-Mock-Topology" :> "mesh" } }
    \cup { Event(<<"api", "v1", "networks", "N_HQ001", "clients">>, RightKey, query_params, path_params) :
             query_params \in PagingQueries, path_params \in { Null, [networkId |-> "N_DC001"] } }
    \cup { Event(path, RightKey, Null, Null) : path \in { <<"api", "v1", "nothing">>, <<"admin", "topology", "active">> } }

\* One request served from its arrival to its response.
Invoke ==
    /\ api # Idle
    /\ \E event \in Events : api' = lambda_handler(db, api, event)
    /\ UNCHANGED <<clock, dgen, cgen, asm, outcomes, val, db>>

\* The container is replaced: the cache of the secret is empty again.
ColdStart ==
    /\ api # Idle
    /\ api.cached_key # None
    /\ api' = [api EXCEPT !.cached_key = None, !.exchange = Null]
    /\ UNCHANGED <<clock, dgen, cgen, asm, outcomes, val, db>>

\* The secret store becomes unreachable or reachable again.
SecretsAvailability ==
    /\ api # Idle
    /\ db' = [db EXCEPT !.secrets_up = ~@]
    /\ UNCHANGED <<clock, dgen, cgen, asm, outcomes, val, api>>

\* The data table becomes unreachable or reachable again.
TableAvailability ==
    /\ api # Idle
    /\ db' = [db EXCEPT !.table_up = ~@]
    /\ UNCHANGED <<clock, dgen, cgen, asm, outcomes, val, api>>

InitApi ==
    /\ clock = ClockBase
    /\ api \in { [default_topology |-> t, cached_key |-> None, exchange |-> Null] : t \in {"hub_spoke", "mesh"} }
    /\ db = SeededStore
    /\ dgen = Idle /\ cgen = Idle /\ asm = Idle /\ outcomes = <<>> /\ val = Idle

NextApi == Invoke \/ ColdStart \/ SecretsAvailability \/ TableAvailability

SpecApi == InitApi /\ [][NextApi]_vars

(***************************************************************************)
(* seed_data/seed_dynamodb.py: the items of a topology and their writing   *)
(* to the data table.  An item is the record of its attributes, data is    *)
(* the entity itself (json.dumps of it).  The table holds one item per     *)
(* key (PK, SK); it is kept as the list of its items in writing order.     *)
(***************************************************************************)
\* The lists of a list, one after the other, by halves.
RECURSIVE Chain(_)
Chain(lists) ==
    IF lists = <<>> THEN <<>>
    ELSE IF Len(lists) = 1 THEN lists[1]
    ELSE Let(Chain(SubSeq(lists, 1, Len(lists) \div 2)), LAMBDA left :
         Let(Chain(SubSeq(lists, (Len(lists) \div 2) + 1, Len(lists))), LAMBDA right : left \o right))

\* next((x for x in list if test(x)), None)
FirstOf(list, Test(_)) == Let(SelectSeq(list, Test), LAMBDA found : IF found = <<>> THEN Null ELSE Head(found))

\* seed_dynamodb.create_item
create_item(topology, entity_type, entity_id, data, parent_type, parent_id) ==
    [PK |-> topology \o "#" \o entity_type,
     SK |-> entity_id,
     data |-> data,
     entity_type |-> entity_type,
     topology |-> topology]
    @@ (IF ~Not(parent_type) /\ ~Not(parent_id)
        THEN [GSI1PK |-> topology \o "#" \o parent_type \o "#" \o parent_id,
              GSI1SK |-> entity_type \o "#" \o entity_id,
              parent_id |-> parent_id,
              parent_type |-> parent_type]
        ELSE EmptyDict)

\* The network a network client is stored under (lines 307-320): the
\* network of the device with the client's recentDeviceSerial, else the
\* first network that has a VLAN with the client's VLAN id, else None.
client_network_id(topology_data, net_client) ==
    Let(IF ~Not(Get(net_client, "recentDeviceSerial", None))
        THEN FirstOf(topology_data.devices, LAMBDA d : d.serial = net_client.recentDeviceSerial)
        ELSE Null, LAMBDA device :
    IF device # Null /\ ~Not(device.networkId) THEN device.networkId
    ELSE Let(FirstOf(topology_data.networks, LAMBDA network :
                 \E j \in DOMAIN topology_data.vlans :
                     /\ topology_data.vlans[j].networkId = network.id
                     /\ topology_data.vlans[j].id = Get(net_client, "vlan", None)), LAMBDA network :
         IF network # Null THEN network.id ELSE None))

\* The items of seed_topology in the order it appends them (lines 235-365).
\* The serials of device_clients are visited in the order of the devices,
\* which is the order the assemblers insert them in.
topology_items(topology_data) ==
    Let(topology_data.topology_name, LAMBDA topology_name :
    Chain(<<
        [j \in DOMAIN topology_data.organizations |->
            create_item(topology_name, ENTITY_ORGANIZATION, topology_data.organizations[j].id, topology_data.organizations[j], None, None)],
        [j \in DOMAIN topology_data.networks |->
            create_item(topology_name, ENTITY_NETWORK, topology_data.networks[j].id, topology_data.networks[j], ENTITY_ORGANIZATION, topology_data.networks[j].organizationId)],
        [j \in DOMAIN topology_data.devices |->
            create_item(topology_name, ENTITY_DEVICE, topology_data.devices[j].serial, topology_data.devices[j], ENTITY_ORGANIZATION, topology_data.devices[j].organizationId)],
        Chain([j \in DOMAIN topology_data.device_availabilities |->
            Let(FirstOf(topology_data.devices, LAMBDA d : d.serial = topology_data.device_availabilities[j].serial), LAMBDA device :
            IF device # Null
            THEN <<create_item(topology_name, ENTITY_DEVICE_AVAILABILITY, topology_data.device_availabilities[j].serial, topology_data.device_availabilities[j], ENTITY_ORGANIZATION, device.organizationId)>>
            ELSE <<>>)]),
        [j \in DOMAIN topology_data.vlans |->
            create_item(topology_name, ENTITY_VLAN, topology_data.vlans[j].networkId \o "#" \o topology_data.vlans[j].id, topology_data.vlans[j], ENTITY_NETWORK, topology_data.vlans[j].networkId)],
        [j \in DOMAIN topology_data.vlan_profiles |->
            Let(IF ~Not(Get(topology_data.vlan_profiles[j], "networkId", None)) THEN topology_data.vlan_profiles[j].networkId ELSE topology_data.networks[1].id, LAMBDA network_id :
            create_item(topology_name, ENTITY_VLAN_PROFILE, network_id \o "#" \o topology_data.vlan_profiles[j].iname, topology_data.vlan_profiles[j], ENTITY_NETWORK, network_id))],
        Chain([j \in DOMAIN topology_data.network_clients |->
            Let(client_network_id(topology_data, topology_data.network_clients[j]), LAMBDA network_id :
            IF ~Not(network_id)
            THEN <<create_item(topology_name, ENTITY_NETWORK_CLIENT, topology_data.network_clients[j].id, topology_data.network_clients[j], ENTITY_NETWORK, network_id)>>
            ELSE <<>>)]),
        Chain([j \in DOMAIN topology_data.devices |->
            IF /\ topology_data.devices[j].serial \in DOMAIN topology_data.device_clients
               /\ \A earlier \in 1..(j - 1) : topology_data.devices[earlier].serial # topology_data.devices[j].serial
            THEN [k \in DOMAIN topology_data.device_clients[topology_data.devices[j].serial] |->
                     Let(topology_data.device_clients[topology_data.devices[j].serial][k], LAMBDA dev_client :
                     create_item(topology_name, ENTITY_CLIENT, topology_data.devices[j].serial \o "#" \o dev_client.id, dev_client, ENTITY_DEVICE, topology_data.devices[j].serial))]
            ELSE <<>>]),
        [j \in DOMAIN topology_data.vpn_configs |->
            create_item(topology_name, ENTITY_VPN_CONFIG, topology_data.vpn_configs[j].network_id, topology_data.vpn_configs[j].config, ENTITY_NETWORK, topology_data.vpn_configs[j].network_id)],
        [j \in DOMAIN topology_data.cellular_subnet_pools |->
            create_item(topology_name, ENTITY_CELLULAR_SUBNET_POOL, topology_data.cellular_subnet_pools[j].network_id, topology_data.cellular_subnet_pools[j].config, ENTITY_NETWORK, topology_data.cellular_subnet_pools[j].network_id)]
    >>))

\* unique_items of batch_write_items (lines 121-128): the first item of
\* every key (PK, SK), in the order of the list.
unique_items(items) ==
    Let([j \in DOMAIN items |-> [j |-> j, key |-> <<items[j].PK, items[j].SK>>, item |-> items[j]]], LAMBDA keyed :
    IF Cardinality({ keyed[j].key : j \in DOMAIN keyed }) = Len(items) THEN items
    ELSE Let(SelectSeq(keyed, LAMBDA x : \A j \in 1..(x.j - 1) : keyed[j].key # x.key), LAMBDA first :
         [j \in DOMAIN first |-> first[j].item]))

\* seed_dynamodb.batch_write_items: the table after the batches of 25 puts
\* (a put replaces the item of its key, and unprocessed puts are sent again
\* until none is left) and the returned number of written items.
batch_write_items(table, items) ==
    Let(unique_items(items), LAMBDA unique :
    Let({ <<unique[j].PK, unique[j].SK>> : j \in DOMAIN unique }, LAMBDA keys :
    [table |-> SelectSeq(table, LAMBDA old : <<old.PK, old.SK>> \notin keys) \o unique,
     removed |-> Len(items) - Len(unique),
     written |-> Len(unique)]))

\* seed_dynamodb.seed_topology
seed_topology(table, topology_data) ==
    Let(topology_items(topology_data), LAMBDA items :
    Let(batch_write_items(table, items), LAMBDA batch :
    [pc |-> "seeded",
     topology_name |-> topology_data.topology_name,
     stats |-> topology_data.stats,
     appended |-> Len(items),
     removed |-> batch.removed,
     written |-> batch.written,
     table |-> batch.table]))

\* main generates the topologies and then seeds them (lines 447-475): a
\* returned topology is written to the empty data table.
SeedTopology ==
    /\ asm.pc = "idle"
    /\ db = Idle
    /\ \E k \in DOMAIN outcomes :
          /\ outcomes[k].outcome = "returned"
          /\ db' = seed_topology(<<>>, outcomes[k].topology)
    /\ UNCHANGED <<val, api, clock, dgen, cgen, asm, outcomes>>

(***************************************************************************)
(* Spec: a process that calls an assembler and, after some time or none,   *)
(* calls it again with the same seed.  One step is the straight-line code  *)
(* before a loop, one pass through a loop of sites, or the return.         *)
(* Control never gets past the unpacking at mesh.py line 143 and           *)
(* multi_org.py line 238, so the statements after the site loops of those  *)
(* two assemblers (the VPN loops and the return) have no step here.        *)
(***************************************************************************)
Init ==
    /\ clock = ClockBase
    /\ dgen = Idle
    /\ cgen = Idle
    /\ asm = Idle
    /\ outcomes = <<>>
    /\ val = Idle
    /\ api = Idle
    /\ db = Idle

\* Time passes between two calls.
Tick ==
    /\ CanCall
    /\ outcomes # <<>>
    /\ clock < ClockBase + MaxClockSkew
    /\ clock' = clock + 1
    /\ UNCHANGED <<val, api, db, dgen, cgen, asm, outcomes>>

Next ==
    \/ CallHubSpoke \/ HubSpokeBranch \/ HubSpokeReturn
    \/ CallMesh \/ MeshDc
    \/ CallMultiOrg \/ MultiOrgOrg \/ MultiOrgNetwork
    \/ SeedTopology
    \/ Tick

Spec == Init /\ [][Next]_vars

(***************************************************************************)
(* Claims about generate_devices_for_network.                              *)
(***************************************************************************)
\* The device index a LAN address was generated with.
LanIndex(ip) == ip[3] * 254 + ip[4] - 1

CategoryRank(product_type) ==
    CASE product_type = "appliance" -> 1
      [] product_type = "switch" -> 2
      [] product_type = "wireless" -> 3
      [] product_type = "cellularGateway" -> 4

\* C10: within one generate_devices_for_network call the device index grows
\* by exactly one per generated device (the j-th device carries the LAN
\* address of index j - 1), the devices come in the order appliances,
\* switches, wireless, cellular, and no two returned devices share a lanIp.
C10_DeviceIndexCollisionFree ==
    dgen.pc # "idle" =>
        /\ dgen.device_index = Len(dgen.devices)
        /\ \A j \in 1..Len(dgen.devices) :
              /\ LanIndex(dgen.devices[j].lanIp) = j - 1
              /\ dgen.devices[j].lanIp[2] = dgen.network_octet
              /\ j > 1 => CategoryRank(dgen.devices[j - 1].productType) <= CategoryRank(dgen.devices[j].productType)
        /\ dgen.pc = "done" =>
              \A j, k \in 1..Len(dgen.devices) :
                  j # k => dgen.devices[j].lanIp # dgen.devices[k].lanIp

\* A finished call with devices of all four categories whose index passed 254.
C10_Witness ==
    /\ dgen.pc = "done"
    /\ Len(dgen.devices) > 254
    /\ \E j \in 1..Len(dgen.devices) : dgen.devices[j].lanIp[3] = 1
    /\ {dgen.devices[j].productType : j \in 1..Len(dgen.devices)} = {"appliance", "switch", "wireless", "cellularGateway"}

(***************************************************************************)
(* Claims about generate_clients_for_network.                              *)
(***************************************************************************)
\* The devices of the call that carry the serial.
DevicesWithSerial(serial) == {j \in DOMAIN cgen.devices : cgen.devices[j].serial = serial}

\* C3: every network-level client with a non-null recentDeviceSerial names
\* exactly one device of the `devices` argument; that device is a switch when
\* the connection is "Wired" and an access point when it is "Wireless", and it
\* belongs to the network the client was generated for.
C3_ClientDeviceConsistent ==
    cgen.pc # "idle" =>
        \A j \in DOMAIN cgen.network_clients :
            LET c == cgen.network_clients[j]
            IN  c.recentDeviceSerial # None =>
                    /\ Cardinality(DevicesWithSerial(c.recentDeviceSerial)) = 1
                    /\ \A d \in DevicesWithSerial(c.recentDeviceSerial) :
                          /\ c.recentDeviceConnection = "Wired" => cgen.devices[d].productType = "switch"
                          /\ c.recentDeviceConnection = "Wireless" => cgen.devices[d].productType = "wireless"
                          /\ cgen.devices[d].networkId = c._network_id
                          /\ c._network_id = cgen.network_id

\* A finished call that connected a client to a switch and one to an access point.
C3_Witness ==
    /\ cgen.pc = "done"
    /\ \E j, k \in DOMAIN cgen.network_clients :
          /\ cgen.network_clients[j].recentDeviceSerial # None
          /\ cgen.network_clients[j].recentDeviceConnection = "Wired"
          /\ cgen.network_clients[k].recentDeviceSerial # None
          /\ cgen.network_clients[k].recentDeviceConnection = "Wireless"

\* C4: with a non-empty list of /24 VLANs, every network-level client's vlan is
\* the id of a VLAN passed to the call and its ip lies in that VLAN's subnet:
\* the first three octets are the subnet's and the fourth is a host address.
C4_ClientInVlanSubnet ==
    (cgen.pc # "idle" /\ cgen.vlans # <<>>) =>
        \A j \in DOMAIN cgen.network_clients :
            \E v \in DOMAIN cgen.vlans :
                /\ cgen.vlans[v].subnet.mask = 24
                /\ cgen.network_clients[j].vlan = cgen.vlans[v].id
                /\ SubSeq(cgen.network_clients[j].ip, 1, 3) = SubSeq(cgen.vlans[v].subnet.ip, 1, 3)
                /\ cgen.network_clients[j].ip[4] \in 1..254

\* A finished call over three VLANs whose client index passed 250 and wrapped.
C4_Witness ==
    /\ cgen.pc = "done"
    /\ Len(cgen.vlans) = 3
    /\ Len(cgen.network_clients) > 251
    /\ cgen.network_clients[251].ip[4] = 2
    /\ Cardinality({cgen.network_clients[j].vlan : j \in DOMAIN cgen.network_clients}) = 3

\* Every client record of the call: network-level and device-level.
ClientRecords ==
    {cgen.network_clients[j] : j \in DOMAIN cgen.network_clients}
    \cup UNION {{cgen.device_clients[s][j] : j \in DOMAIN cgen.device_clients[s]} : s \in DOMAIN cgen.device_clients}

HasSwitchOrAp == \E j \in DOMAIN cgen.devices : cgen.devices[j].productType \in {"switch", "wireless"}

\* C5 as stated: no record (network-level or device-level) has both a non-null
\* switchport and a non-null ssid; both are null only when the device list has
\* neither a switch nor an access point; otherwise exactly one is non-null.
C5_AsStated ==
    cgen.pc # "idle" =>
        \A r \in ClientRecords :
            LET wired == r.switchport # None
                wireless == Get(r, "ssid", None) # None
            IN  /\ ~(wired /\ wireless)
                /\ (~wired /\ ~wireless) => ~HasSwitchOrAp
                /\ HasSwitchOrAp => (wired # wireless)

\* C5 amended: no record has both a non-null switchport and a non-null ssid.
\* Every network-level client has exactly one of them non-null, the switchport
\* exactly when its connection is "Wired" (also when the device list has no
\* switch and no access point).  A device-level record has no ssid key, and
\* its switchport is non-null exactly when it is stored under a switch.
C5_SwitchportXorSsid ==
    cgen.pc # "idle" =>
        /\ \A j \in DOMAIN cgen.network_clients :
              LET c == cgen.network_clients[j]
              IN  /\ (c.switchport # None) # (c.ssid # None)
                  /\ (c.switchport # None) <=> (c.recentDeviceConnection = "Wired")
        /\ \A s \in DOMAIN cgen.device_clients :
              \A j \in DOMAIN cgen.device_clients[s] :
                  /\ "ssid" \notin DOMAIN cgen.device_clients[s][j]
                  /\ (cgen.device_clients[s][j].switchport # None)
                        <=> (\E d \in DevicesWithSerial(s) : cgen.devices[d].productType = "switch")

\* A finished call over a device list with an access point, holding a
\* device-level record that has neither a switchport nor an ssid.
C5_Witness ==
    /\ cgen.pc = "done"
    /\ HasSwitchOrAp
    /\ \E s \in DOMAIN cgen.device_clients : \E j \in DOMAIN cgen.device_clients[s] :
          /\ cgen.device_clients[s][j].switchport = None
          /\ "ssid" \notin DOMAIN cgen.device_clients[s][j]

\* C9: when every required manufacturer is a key of DEVICE_TYPE_BY_KEY, the
\* i-th network-level client has the manufacturer name and the MAC prefix
\* (the lower-case OUI) of the CLIENT_MANUFACTURERS entry of the i-th key.
C9_RequiredManufacturersFirst ==
    (cgen.pc # "idle" /\ \A i \in DOMAIN cgen.required_mfrs : cgen.required_mfrs[i] \in DOMAIN DEVICE_TYPE_BY_KEY) =>
        \A i \in DOMAIN cgen.required_mfrs :
            i <= Len(cgen.network_clients) =>
                \E m \in DOMAIN CLIENT_MANUFACTURERS :
                    /\ CLIENT_MANUFACTURERS[m].oui = DEVICE_TYPE_BY_KEY[cgen.required_mfrs[i]]
                    /\ cgen.network_clients[i].manufacturer = CLIENT_MANUFACTURERS[m].name
                    /\ StartsWith(cgen.network_clients[i].mac, Lower(CLIENT_MANUFACTURERS[m].oui) \o ":")

\* A finished call with three required manufacturers and at least as many clients.
C9_Witness ==
    /\ cgen.pc = "done"
    /\ Len(cgen.required_mfrs) = 3
    /\ Len(cgen.network_clients) >= 3
    /\ cgen.network_clients[1].manufacturer = "HP"
    /\ cgen.network_clients[2].manufacturer = "Samsung"
    /\ cgen.network_clients[3].manufacturer = "Apple"

(***************************************************************************)
(* Claims about the assemblers.                                            *)
(***************************************************************************)
\* The topologies the finished calls returned.
ReturnedTopologies == {outcomes[k].topology : k \in {k \in DOMAIN outcomes : outcomes[k].outcome = "returned"}}

Elements(list) == {list[j] : j \in DOMAIN list}

\* C1: two calls of an assembler with the same seed have the same outcome:
\* the same records with the same value in every field (timestamps included)
\* in the same order, whenever each call is made.
C1_SameSeedSameOutput ==
    \A a, b \in DOMAIN outcomes :
        (outcomes[a].name = outcomes[b].name /\ outcomes[a].seed = outcomes[b].seed)
            => outcomes[a] = outcomes[b]

\* C2: in every returned topology every device's networkId is the id of a
\* network of the topology whose organizationId is the device's, and that
\* organizationId is the id of an organization of the topology.
C2_DeviceNetworkOrganization ==
    \A t \in ReturnedTopologies :
        \A d \in Elements(t.devices) :
            /\ \E n \in Elements(t.networks) : n.id = d.networkId /\ n.organizationId = d.organizationId
            /\ \E o \in Elements(t.organizations) : o.id = d.organizationId

\* A returned topology with devices in the hub network and in branch networks.
C2_Witness ==
    \E t \in ReturnedTopologies :
        /\ Len(t.networks) > 1
        /\ \E d, e \in Elements(t.devices) : d.networkId = hq_network_id /\ e.networkId = branch_network_id(19)

\* C6: in every returned topology every hubId of a VPN config of mode "spoke"
\* is the id of a network of the topology whose own VPN config has mode "hub".
C6_SpokeHubsAreHubs ==
    \A t \in ReturnedTopologies :
        \A spoke \in Elements(t.vpn_configs) :
            spoke.config.mode = "spoke" =>
                \A h \in Elements(spoke.config.hubs) :
                    /\ \E n \in Elements(t.networks) : n.id = h.hubId
                    /\ \E hub \in Elements(t.vpn_configs) : hub.network_id = h.hubId /\ hub.config.mode = "hub"

\* A returned topology with a spoke that names a hub.
C6_Witness ==
    \E t \in ReturnedTopologies :
        \E spoke \in Elements(t.vpn_configs) :
            spoke.config.mode = "spoke" /\ spoke.config.hubs # <<>>

\* C7: every call of the multi-org assembler returns a topology in which every
\* hubId of a VPN config of a network of organization O is the id of a
\* network whose organizationId is O.
C7_TenantIsolation ==
    \A k \in DOMAIN outcomes :
        outcomes[k].name = "multi_org" =>
            /\ outcomes[k].outcome = "returned"
            /\ \A vpn \in Elements(outcomes[k].topology.vpn_configs) :
                  \A h \in Elements(vpn.config.hubs) :
                      \E n, m \in Elements(outcomes[k].topology.networks) :
                          /\ n.id = vpn.network_id
                          /\ m.id = h.hubId
                          /\ m.organizationId = n.organizationId

TopologyKeys ==
    {"organizations", "networks", "devices", "device_availabilities", "device_statuses", "vlans", "vlan_profiles",
     "network_clients", "device_clients", "vpn_configs", "cellular_subnet_pools", "stats", "topology_name"}

\* C8: every call of an assembler returns, without raising, one aggregate
\* with all the keys of TopologyKeys, and its topology_name, organizations,
\* networks, devices and vlans are not empty.
C8_AssemblersComplete ==
    \A k \in DOMAIN outcomes :
        /\ outcomes[k].outcome = "returned"
        /\ TopologyKeys \subseteq DOMAIN outcomes[k].topology
        /\ outcomes[k].topology.topology_name # ""
        /\ outcomes[k].topology.organizations # <<>>
        /\ outcomes[k].topology.networks # <<>>
        /\ outcomes[k].topology.devices # <<>>
        /\ outcomes[k].topology.vlans # <<>>

\* The list of VLANs every assembler call holds or has returned.
BuiltVlans == { outcomes[k].topology.vlans : k \in { j \in DOMAIN outcomes : outcomes[j].outcome = "returned" } } \cup (IF asm = Idle THEN {} ELSE {asm.store.vlans})

\* Two subnets whose prefix lengths are whole octets overlap when they agree
\* on the octets of the shorter prefix.
Overlaps(a, b) == \A k \in 1..((IF a.mask < b.mask THEN a.mask ELSE b.mask) \div 8) : a.ip[k] = b.ip[k]

\* The base third octet and the number of VLANs of every site, in the order
\* the assembler visits the sites.
SiteOctets(base, vlan_types) == [base |-> base, count |-> Len(vlan_types)]

HubSpokeSites == <<SiteOctets(hq_base_third_octet, hq_vlan_types)>> \o [k \in 1..Len(branch_configs) |-> SiteOctets(branch_base_third_octet(k - 1), branch_vlan_types(branch_configs[k]))]

MeshSites == [k \in 1..Len(DC_CONFIGS) |-> SiteOctets(dc_base_third_octet(k - 1), dc_vlan_types)]

RECURSIVE MultiOrgSitesFrom(_, _)
MultiOrgSitesFrom(o, network_counter) ==
    IF o > Len(ORG_CONFIGS) THEN <<>>
    ELSE [n \in 1..Len(ORG_CONFIGS[o].networks) |-> SiteOctets(multi_org_base_third_octet(network_counter + n), multi_org_vlan_types(ORG_CONFIGS[o].networks[n].type))]
         \o MultiOrgSitesFrom(o + 1, network_counter + Len(ORG_CONFIGS[o].networks))

MultiOrgSites == MultiOrgSitesFrom(1, 0)

\* C11: in the VLAN list of every assembler call, while it is built and when
\* it is returned, no two VLANs of different networks have overlapping
\* subnets; and in the site list of each of the three assemblers the base
\* third octet of a site is at least the base third octet of the site
\* before it plus the number of VLANs of that site.
C11_SubnetsDisjoint ==
    /\ \A vlans \in BuiltVlans :
          \A a, b \in DOMAIN vlans :
              vlans[a].networkId # vlans[b].networkId => ~Overlaps(vlans[a].subnet, vlans[b].subnet)
    /\ \A sites \in {HubSpokeSites, MeshSites, MultiOrgSites} :
          \A k \in 1..(Len(sites) - 1) : sites[k + 1].base >= sites[k].base + sites[k].count

\* A returned topology with the VLANs of the hub and of the last branch.
C11_Witness ==
    \E t \in ReturnedTopologies :
        \E a, b \in DOMAIN t.vlans : t.vlans[a].networkId = hq_network_id /\ t.vlans[b].networkId = branch_network_id(19)

HubSpokeOutcomes == { outcomes[k] : k \in { j \in DOMAIN outcomes : outcomes[j].name = "hub_spoke" } }

\* The VPN configs a topology holds for a network.
VpnConfigsOf(t, network_id) == { t.vpn_configs[j].config : j \in { i \in DOMAIN t.vpn_configs : t.vpn_configs[i].network_id = network_id } }

\* C12: every call of the hub-spoke assembler returns a topology with one
\* organization and 21 networks (in the lists and in stats); the hub network
\* has one VPN config, of mode "hub" with an empty hubs list; each of the 20
\* other networks has one VPN config, of mode "spoke" with exactly one hub
\* whose hubId is the hub network's id.
C12_HubSpokeShape ==
    \A call \in HubSpokeOutcomes :
        /\ call.outcome = "returned"
        /\ LET t == call.topology
           IN  /\ t.stats.organizations = 1 /\ Len(t.organizations) = 1
               /\ t.stats.networks = 21 /\ Len(t.networks) = 21
               /\ Cardinality({ n.id : n \in Elements(t.networks) }) = 21
               /\ t.networks[1].id = hq_network_id
               /\ Len(t.vpn_configs) = 21
               /\ \A n \in Elements(t.networks) :
                     /\ Cardinality(VpnConfigsOf(t, n.id)) = 1
                     /\ \A vpn \in VpnConfigsOf(t, n.id) :
                           IF n.id = hq_network_id
                           THEN vpn.mode = "hub" /\ vpn.hubs = <<>>
                           ELSE vpn.mode = "spoke" /\ Len(vpn.hubs) = 1 /\ vpn.hubs[1].hubId = hq_network_id

\* A hub-spoke call has returned a topology with the VPN config of the last branch.
C12_Witness ==
    \E call \in HubSpokeOutcomes :
        /\ call.outcome = "returned"
        /\ VpnConfigsOf(call.topology, branch_network_id(19)) # {}

\* The ids of the primary-tier data centers.
PrimaryDcIds == { dc_network_id(i - 1) : i \in { j \in DOMAIN DC_CONFIGS : DC_CONFIGS[j].tier = "primary" } }

\* C13: every call of the mesh assembler returns a topology in which every
\* primary-tier data center has a VPN config of mode "hub" without hubs and
\* every secondary- or edge-tier data center has a VPN config of mode
\* "spoke" whose hubIds are exactly the ids of all primary-tier data centers.
C13_MeshVpn ==
    \A k \in DOMAIN outcomes :
        outcomes[k].name = "mesh" =>
            /\ outcomes[k].outcome = "returned"
            /\ \A i \in DOMAIN DC_CONFIGS :
                  /\ VpnConfigsOf(outcomes[k].topology, dc_network_id(i - 1)) # {}
                  /\ \A vpn \in VpnConfigsOf(outcomes[k].topology, dc_network_id(i - 1)) :
                        IF DC_CONFIGS[i].tier = "primary"
                        THEN vpn.mode = "hub" /\ vpn.hubs = <<>>
                        ELSE vpn.mode = "spoke" /\ { h.hubId : h \in Elements(vpn.hubs) } = PrimaryDcIds

\* The network-level clients of the call with a given id.
NetworkClientsWithId(id) == { cgen.network_clients[j] : j \in { i \in DOMAIN cgen.network_clients : cgen.network_clients[i].id = id } }

\* C14: the usage.sent and usage.recv of every device-level record are the
\* usage.sent and usage.recv of the network-level client with the same id,
\* divided by 1000 and truncated.
C14_DeviceUsageFromNetworkUsage ==
    cgen.pc # "idle" =>
        \A s \in DOMAIN cgen.device_clients :
            \A j \in DOMAIN cgen.device_clients[s] :
                \A c \in NetworkClientsWithId(cgen.device_clients[s][j].id) :
                    /\ cgen.device_clients[s][j].usage.sent = BytesDiv1000(c.usage.sent)
                    /\ cgen.device_clients[s][j].usage.recv = BytesDiv1000(c.usage.recv)

\* C15: a call whose device list has no switch and no access point runs to
\* its end (no pass fails: after i passes there are i clients, and the call
\* is done exactly when i = count); every client has recentDeviceSerial,
\* recentDeviceName and recentDeviceMac None and a recentDeviceConnection of
\* "Wired" or "Wireless"; and there is no device-level record.
C15_NoSwitchNoAccessPoint ==
    (cgen.pc # "idle" /\ ~HasSwitchOrAp) =>
        /\ cgen.pc \in {"loop", "done"}
        /\ Len(cgen.network_clients) = cgen.i
        /\ (cgen.pc = "done") <=> (cgen.i >= cgen.count)
        /\ \A j \in DOMAIN cgen.network_clients :
              /\ cgen.network_clients[j].recentDeviceSerial = None
              /\ cgen.network_clients[j].recentDeviceName = None
              /\ cgen.network_clients[j].recentDeviceMac = None
              /\ cgen.network_clients[j].recentDeviceConnection \in {"Wired", "Wireless"}
        /\ \A s \in DOMAIN cgen.device_clients : cgen.device_clients[s] = <<>>

\* A finished call for MaxClients clients over a device list that holds
\* devices, none of them a switch or an access point.
C15_Witness ==
    /\ cgen.pc = "done"
    /\ cgen.devices # <<>>
    /\ ~HasSwitchOrAp
    /\ Len(cgen.network_clients) = MaxClients

\* C16: at every point of a generate_devices_for_network call the three
\* lists have the same length, and at every index the availability and the
\* status carry the device's serial and the same status, for devices of
\* every category.
C16_ParallelListsSameStatus ==
    dgen.pc # "idle" =>
        /\ Len(dgen.availabilities) = Len(dgen.devices)
        /\ Len(dgen.statuses) = Len(dgen.devices)
        /\ \A j \in DOMAIN dgen.devices :
              /\ dgen.availabilities[j].serial = dgen.devices[j].serial
              /\ dgen.statuses[j].serial = dgen.devices[j].serial
              /\ dgen.statuses[j].status = dgen.availabilities[j].status

\* A finished call with devices of the four categories, not all of them online.
C16_Witness ==
    /\ dgen.pc = "done"
    /\ {dgen.devices[j].productType : j \in DOMAIN dgen.devices} = {"appliance", "switch", "wireless", "cellularGateway"}
    /\ \E j \in DOMAIN dgen.statuses : dgen.statuses[j].status # "online"

(***************************************************************************)
(* Claims about the validator.                                             *)
(***************************************************************************)
RECURSIVE Flatten(_)
Flatten(lists) == IF lists = <<>> THEN <<>> ELSE Flatten(SubSeq(lists, 1, Len(lists) - 1)) \o lists[Len(lists)]

\* C17: validate_topology is called for the discovered topologies one after
\* the other whatever the earlier ones reported, so that at the exit every
\* discovered topology has its report; all_errors is at every point the
\* concatenation of the reported errors; and the exit status is 1 when some
\* report carries an error and 0 when none does.
C17_ValidatorAggregates ==
    val.pc \in {"loop", "exited"} =>
        /\ Len(val.reports) = val.k
        /\ \A j \in DOMAIN val.reports : val.reports[j].name = val.topologies[j]
        /\ val.all_errors = Flatten([j \in DOMAIN val.reports |-> val.reports[j].errors])
        /\ val.pc = "exited" =>
              /\ Len(val.reports) = Len(val.topologies)
              /\ val.exit_code = (IF \E j \in DOMAIN val.reports : val.reports[j].errors # <<>> THEN 1 ELSE 0)

\* A finished run whose first topology raised, whose second reported two
\* errors and whose last was valid.
C17_Witness ==
    /\ val.pc = "exited"
    /\ val.exit_code = 1
    /\ val.reports[1].errors = <<val.topologies[1] \o ": " \o UnpackError(2)>>
    /\ Len(val.reports[2].errors) = 2
    /\ val.reports[3].errors = <<>>

(***************************************************************************)
(* Claims about the request handler.                                       *)
(***************************************************************************)
\* The last exchange of the container, when a request has been served.
Served == api # Idle /\ api.exchange # Null

\* The headers and the query parameters of the last request as it carried them.
SentHeaders == IF api.exchange.event.headers = Null THEN EmptyDict ELSE api.exchange.event.headers

SentQuery == IF api.exchange.event.queryStringParameters = Null THEN EmptyDict ELSE api.exchange.event.queryStringParameters

\* The non-empty values of the request's X-Mock-Topology header, whatever the case of its name.
TopologyHeaderValues == { SentHeaders[n] : n \in { k \in DOMAIN SentHeaders : Lower(k) = "x-mock-topology" } } \ {""}

\* C18: every read a data handler issues for an authenticated request names
\* the topology of the request's X-Mock-Topology header (name in any case)
\* when that header is present and not empty, otherwise the topology of the
\* query parameter `topology` when it is present and not empty, otherwise
\* the default topology of the container's environment.
C18_TopologySelection ==
    (Served /\ api.exchange.handler # None) =>
        /\ api.exchange.reads # <<>>
        /\ \A j \in DOMAIN api.exchange.reads :
              api.exchange.reads[j].topology =
                  (IF TopologyHeaderValues # {} THEN CHOOSE v \in TopologyHeaderValues : TRUE
                   ELSE IF "topology" \in DOMAIN SentQuery /\ SentQuery.topology # "" THEN SentQuery.topology
                   ELSE api.default_topology)

\* A served request that carried the header and a different query parameter,
\* neither of them the default, and was read from the header's topology.
C18_Witness ==
    /\ Served
    /\ api.exchange.handler = "get_organizations"
    /\ TopologyHeaderValues = {"mesh"}
    /\ "topology" \in DOMAIN SentQuery
    /\ SentQuery.topology = "multi_org"
    /\ api.default_topology = "hub_spoke"
    /\ api.exchange.response.statusCode = 200
    /\ api.exchange.reads[1].topology = "mesh"


\* The key a request offers: the X-Cisco-Meraki-API-Key header, or else the
\* token of an Authorization Bearer header; None when it offers neither.
KeyOf(event) == offered_key(LowerKeys(IF event.headers = Null THEN EmptyDict ELSE event.headers))

\* A step that serves one request and leaves its exchange in the container.
Serving == api # Idle /\ api' # Idle /\ db' = db /\ api'.exchange # Null

UnderAdmin(path) == path # <<>> /\ path[1] = "admin"

\* C19: a request to /health is answered 200 whatever key it carries; for a
\* request to any path that is neither /health nor under /admin no data
\* handler is invoked unless the key it offers equals the stored secret, and
\* a request that offers no key, or a key different from the secret, or that
\* arrives while the secret cannot be fetched from the secret store, is
\* answered 401.
C19_KeyRequired ==
    [][Serving =>
          IF api'.exchange.event.path = <<"health">> THEN api'.exchange.response.statusCode = 200
          ELSE UnderAdmin(api'.exchange.event.path) \/
               /\ api'.exchange.handler # None => KeyOf(api'.exchange.event) = db.secret
               /\ KeyOf(api'.exchange.event) = None => api'.exchange.response.statusCode = 401
               /\ (KeyOf(api'.exchange.event) # None /\ KeyOf(api'.exchange.event) # db.secret) => api'.exchange.response.statusCode = 401
               /\ (~db.secrets_up /\ api.cached_key = None) => api'.exchange.response.statusCode = 401]_vars

\* The part of C19 that the handler keeps: without the secret's key no data
\* handler runs, a request without a key is answered 401, /health 200.
C19_NoHandlerWithoutKey ==
    [][Serving =>
          IF api'.exchange.event.path = <<"health">> THEN api'.exchange.response.statusCode = 200
          ELSE UnderAdmin(api'.exchange.event.path) \/
               /\ api'.exchange.handler # None => KeyOf(api'.exchange.event) = db.secret
               /\ KeyOf(api'.exchange.event) = None => api'.exchange.response.statusCode = 401]_vars


\* The handlers of the parent-scoped read endpoints.
ParentScoped ==
    { "get_organization_networks", "get_organization_devices", "get_organization_devices_availabilities",
      "get_network_vlans", "get_network_clients", "get_network_vlan_profiles", "get_site_to_site_vpn",
      "get_cellular_gateway_subnet_pool", "get_device_clients" }

\* The table holds the entity the read asks for.
Stored(read) == \E j \in DOMAIN db.data : db.data[j].PK = <<read.topology, read.entity_type>> /\ db.data[j].SK = read.id

\* C20: a request served by a parent-scoped read endpoint while the table
\* answers is given 404 with an `errors` body, and no query after the lookup
\* of the parent, when the parent is not stored in the selected topology;
\* it is given 200 when the parent is stored there.
C20_ParentChecked ==
    [][(Serving /\ api'.exchange.handler \in ParentScoped /\ db.table_up) =>
          IF Stored(api'.exchange.reads[1])
          THEN api'.exchange.response.statusCode = 200
          ELSE /\ api'.exchange.response.statusCode = 404
               /\ DOMAIN api'.exchange.response.body = {"errors"}
               /\ Len(api'.exchange.reads) = 1]_vars

\* The part of C20 that the handlers keep: the 404 for a parent that is not
\* stored, and the 200 for a stored parent when the request has no perPage.
C20_ParentCheckedWithoutPaging ==
    [][(Serving /\ api'.exchange.handler \in ParentScoped /\ db.table_up) =>
          IF Stored(api'.exchange.reads[1])
          THEN \/ api'.exchange.response.statusCode = 200
               \/ /\ api'.exchange.event.queryStringParameters # Null
                  /\ "perPage" \in DOMAIN api'.exchange.event.queryStringParameters
          ELSE /\ api'.exchange.response.statusCode = 404
               /\ DOMAIN api'.exchange.response.body = {"errors"}
               /\ Len(api'.exchange.reads) = 1]_vars

(***************************************************************************)
(* Claims about the random stream of a generation call.                    *)
(***************************************************************************)
\* The stream a state of the random module belongs to, and the number of
\* values drawn from that stream so far.
StreamOf(g) == g \div 1000000
DrawnFrom(g) == g % 1000000

\* C21: within one assembler call the random stream is seeded only before
\* the first draw: at every step of the call the stream is the one the
\* call's seed selected, and the number of values drawn from it never goes
\* back, so no generator seeds it again after a draw and the device, client
\* and network generators all draw from that one stream.
C21_SeededBeforeFirstDraw ==
    [][asm'.pc # "idle" =>
          /\ StreamOf(asm'.g) = asm'.seed
          /\ asm.pc # "idle" => (StreamOf(asm.g) = StreamOf(asm'.g) /\ DrawnFrom(asm'.g) >= DrawnFrom(asm.g))]_vars

\* A hub-spoke call in its branch loop: the organization, the HQ devices,
\* VLANs and clients and a branch have drawn from the stream.
C21_Witness ==
    /\ asm.pc = "branches"
    /\ asm.i >= 2
    /\ StreamOf(asm.g) = asm.seed
    /\ DrawnFrom(asm.g) > 200

\* C22: every device-level record describes the same client as the
\* network-level record with the same id: the two have the same mac, the
\* same ip, the same description, the same vlan and the same user.
C22_DeviceRecordSameClient ==
    cgen.pc # "idle" =>
        \A s \in DOMAIN cgen.device_clients :
            \A j \in DOMAIN cgen.device_clients[s] :
                /\ NetworkClientsWithId(cgen.device_clients[s][j].id) # {}
                /\ \A c \in NetworkClientsWithId(cgen.device_clients[s][j].id) :
                      /\ cgen.device_clients[s][j].mac = c.mac
                      /\ cgen.device_clients[s][j].ip = c.ip
                      /\ cgen.device_clients[s][j].description = c.description
                      /\ cgen.device_clients[s][j].vlan = c.vlan
                      /\ cgen.device_clients[s][j].user = c.user

\* The part of C22 that the generator keeps: the device-level record has
\* the id, the ip and the vlan of the network-level record.
C22_SameIdIpVlan ==
    cgen.pc # "idle" =>
        \A s \in DOMAIN cgen.device_clients :
            \A j \in DOMAIN cgen.device_clients[s] :
                /\ NetworkClientsWithId(cgen.device_clients[s][j].id) # {}
                /\ \A c \in NetworkClientsWithId(cgen.device_clients[s][j].id) :
                      /\ cgen.device_clients[s][j].ip = c.ip
                      /\ cgen.device_clients[s][j].vlan = c.vlan

(***************************************************************************)
(* SpecConnection: the connection decision of generate_clients_for_network *)
(* (lines 683-739) for one client.  The locals are the hostname and the    *)
(* prediction of the client, the switches and access points of the network *)
(* and the position of the random stream.  The hostname is any prefix of   *)
(* prefixes_by_oui followed by a suffix that random.choices can draw from  *)
(* the upper-case letters and the digits.                                  *)
(***************************************************************************)
HostSuffixes == {"7K2Q", "IPAD", "NUC8", "0TV5"}

\* The values of a list
Members(list) == { list[j] : j \in DOMAIN list }

InitConnection ==
    /\ clock \in Clocks
    /\ \E manufacturer \in Members(CLIENT_MANUFACTURERS), suffix \in HostSuffixes, devices \in DeviceListChoices, seed \in Seeds :
          \E entry \in Members(prefixes_by_oui[manufacturer.oui]), os \in Members(manufacturer.os) :
              cgen = [pc |-> "connect",
                      type |-> entry.type,
                      hostname |-> Upper(entry.prefix \o "-" \o suffix),
                      device_prediction |-> Lower(IF entry.os THEN entry.type \o ", " \o os ELSE entry.type),
                      switches |-> OfType(devices, "switch"),
                      access_points |-> OfType(devices, "wireless"),
                      g |-> SeedRng(seed),
                      recentDeviceSerial |-> None,
                      recentDeviceConnection |-> None]
    /\ dgen = Idle
    /\ asm = Idle
    /\ outcomes = <<>>
    /\ val = Idle
    /\ api = Idle
    /\ db = Idle

\* Lines 683-739 and 742-745: is_wired by type, adjusted to the
\* infrastructure, then the device and the connection type.
Connect ==
    /\ cgen.pc = "connect"
    /\ cgen' = Let(wired_by_type(cgen.g, cgen.hostname, cgen.device_prediction), LAMBDA by_type :
               Let(pick_device(by_type.g, wired_by_infrastructure(by_type.v, cgen.switches # <<>>, cgen.access_points # <<>>), cgen.switches, cgen.access_points), LAMBDA pick :
               [cgen EXCEPT !.pc = "connected",
                            !.g = pick.g,
                            !.recentDeviceSerial = IF pick.device # Null THEN pick.device.serial ELSE None,
                            !.recentDeviceConnection = pick.connection_type]))
    /\ UNCHANGED <<val, api, db, clock, dgen, asm, outcomes>>

NextConnection == Connect

SpecConnection == InitConnection /\ [][NextConnection]_vars

(***************************************************************************)
(* Claims about the connection of a client.                                *)
(***************************************************************************)
\* The predictions of phones and tablets, and those of desktops, printers,
\* scanners, VoIP phones, sensors, cameras, medical devices and NUCs.
MobileTypes == {"iPhone", "iPad", "Samsung Galaxy", "Samsung Tablet", "Google Pixel"}

WiredTypes ==
    {"Dell Desktop", "HP Desktop", "HP LaserJet Printer", "HP OfficeJet MFP", "Epson Printer", "Canon Printer",
     "Zebra Scanner", "Zebra TC52", "Honeywell Scanner", "Honeywell CT60", "Cisco IP Phone", "Cisco IP Phone 8845",
     "IoT Sensor", "Environmental Sensor", "Axis IP Camera", "Axis P3245-V",
     "GE Patient Monitor", "GE CARESCAPE Monitor", "Philips IntelliVue", "Philips Patient Monitor", "Intel NUC"}

SerialsOf(devices) == { devices[j].serial : j \in DOMAIN devices }

ThroughSwitch == cgen.recentDeviceConnection = "Wired" /\ cgen.recentDeviceSerial \in SerialsOf(cgen.switches)

ThroughAccessPoint == cgen.recentDeviceConnection = "Wireless" /\ cgen.recentDeviceSerial \in SerialsOf(cgen.access_points)

\* C23: in a network with a switch and an access point every phone or
\* tablet is connected Wireless to an access point and every desktop,
\* printer, scanner, VoIP phone, sensor, camera, medical device or NUC is
\* connected Wired to a switch, whatever hostname was generated; in a
\* network with only one of the two categories every client is connected
\* through that category.
C23_ConnectionByType ==
    cgen.pc = "connected" =>
        /\ (cgen.switches # <<>> /\ cgen.access_points # <<>>) =>
              /\ cgen.type \in MobileTypes => ThroughAccessPoint
              /\ cgen.type \in WiredTypes => ThroughSwitch
        /\ (cgen.switches # <<>> /\ cgen.access_points = <<>>) => ThroughSwitch
        /\ (cgen.switches = <<>> /\ cgen.access_points # <<>>) => ThroughAccessPoint

\* The part of C23 that the generator keeps: the same, for the wired types
\* only when no always-wireless pattern occurs in the hostname.
C23_ConnectionByPattern ==
    cgen.pc = "connected" =>
        /\ (cgen.switches # <<>> /\ cgen.access_points # <<>>) =>
              /\ cgen.type \in MobileTypes => ThroughAccessPoint
              /\ (cgen.type \in WiredTypes /\ ~always_wireless(cgen.hostname, cgen.device_prediction)) => ThroughSwitch
              /\ (cgen.type \in WiredTypes /\ always_wireless(cgen.hostname, cgen.device_prediction)) => ThroughAccessPoint
        /\ (cgen.switches # <<>> /\ cgen.access_points = <<>>) => ThroughSwitch
        /\ (cgen.switches = <<>> /\ cgen.access_points # <<>>) => ThroughAccessPoint

\* A desktop whose hostname ends with the suffix IPAD, connected in a
\* network with switches and access points.
C23_Witness ==
    /\ cgen.pc = "connected"
    /\ cgen.hostname = "DELL-DESKTOP-IPAD"
    /\ cgen.switches # <<>>
    /\ cgen.access_points # <<>>
    /\ ThroughAccessPoint

(***************************************************************************)
(* Claims about the usage of a client.                                     *)
(***************************************************************************)
\* lo <= x <= hi for a byte count x and a range in units of 1000 bytes
BytesWithin(x, range) == x.k >= range[1] /\ (x.k < range[2] \/ (x.k = range[2] /\ x.r = 0))

\* The usage ranges by device type: laptops, phones, printers, IoT sensors
\* and IP cameras, recognised by their deviceTypePrediction.  Where only a
\* range of sent bytes is stated the range of received bytes is 0-100 TB.
TypeUsageBounds ==
    <<[pattern |-> "laptop", sent_range |-> <<500000, 5000000>>, recv_range |-> <<1000000, 10000000>>],
      [pattern |-> "iphone", sent_range |-> <<50000, 500000>>, recv_range |-> <<0, 100000000>>],
      [pattern |-> "galaxy", sent_range |-> <<50000, 500000>>, recv_range |-> <<0, 100000000>>],
      [pattern |-> "pixel", sent_range |-> <<50000, 500000>>, recv_range |-> <<0, 100000000>>],
      [pattern |-> "printer", sent_range |-> <<1000, 50000>>, recv_range |-> <<0, 100000000>>],
      [pattern |-> "sensor", sent_range |-> <<1000, 10000>>, recv_range |-> <<0, 100000000>>],
      [pattern |-> "camera", sent_range |-> <<5000000, 50000000>>, recv_range |-> <<0, 100000000>>]>>

\* C24: usage.sent and usage.recv of every generated client are within the
\* bounds of the client's device type (laptops 0.5-5 GB sent and 1-10 GB
\* received, phones 50-500 MB sent, printers 1-50 MB sent, IoT sensors
\* 1-10 MB sent, IP cameras 5-50 GB sent) and usage.total = sent + recv.
C24_UsageWithinTypeBounds ==
    cgen.pc # "idle" =>
        \A j \in DOMAIN cgen.network_clients :
            /\ cgen.network_clients[j].usage.total = AddBytes(cgen.network_clients[j].usage.sent, cgen.network_clients[j].usage.recv)
            /\ \A b \in DOMAIN TypeUsageBounds :
                  Contains(Lower(cgen.network_clients[j].deviceTypePrediction), TypeUsageBounds[b].pattern) =>
                      /\ BytesWithin(cgen.network_clients[j].usage.sent, TypeUsageBounds[b].sent_range)
                      /\ BytesWithin(cgen.network_clients[j].usage.recv, TypeUsageBounds[b].recv_range)

\* The part of C24 that the generator keeps: the total is the sum, smart
\* TVs and medical devices are within their own ranges and every other
\* client is within the range of "Other" (1-100 MB sent, 5-200 MB received).
C24_UsageWithinMatchedPattern ==
    cgen.pc # "idle" =>
        \A j \in DOMAIN cgen.network_clients :
            /\ cgen.network_clients[j].usage.total = AddBytes(cgen.network_clients[j].usage.sent, cgen.network_clients[j].usage.recv)
            /\ \E key \in {IF AnyIn(Lower(cgen.network_clients[j].deviceTypePrediction), <<"smart tv">>) THEN "Smart TV"
                           ELSE IF AnyIn(Lower(cgen.network_clients[j].deviceTypePrediction), <<"patient", "intellivue", "carescape">>) THEN "Medical"
                           ELSE "Other"} :
                  /\ BytesWithin(cgen.network_clients[j].usage.sent, usage_patterns[key].sent_range)
                  /\ BytesWithin(cgen.network_clients[j].usage.recv, usage_patterns[key].recv_range)

(***************************************************************************)
(* Claims about the result of generate_clients_for_network.                *)
(***************************************************************************)
\* The names of the weighted manufacturer table
ManufacturerNames == { CLIENT_MANUFACTURERS[j].name : j \in DOMAIN CLIENT_MANUFACTURERS }

\* C25: generate_clients_for_network does not raise and returns exactly
\* count network-level clients for every count >= 0: every pass of the loop
\* adds one client and the call is done exactly when it has count clients.
\* With an empty list of VLANs every client is in the default VLAN 1 with an
\* address of 192.168.1.0/24, and a required manufacturer that is not a key
\* of the device-type table leaves the client with a manufacturer of the
\* weighted table.
C25_ReturnsCountClients ==
    cgen.pc # "idle" =>
        /\ cgen.pc \in {"loop", "done"}
        /\ Len(cgen.network_clients) = cgen.i
        /\ cgen.i <= cgen.count
        /\ cgen.pc = "done" <=> cgen.i = cgen.count
        /\ \A j \in DOMAIN cgen.network_clients :
              /\ cgen.vlans = <<>> =>
                    /\ cgen.network_clients[j].vlan = "1"
                    /\ cgen.network_clients[j].namedVlan = "Default"
                    /\ SubSeq(cgen.network_clients[j].ip, 1, 3) = <<192, 168, 1>>
              /\ (j <= Len(cgen.required_mfrs) /\ cgen.required_mfrs[j] \notin DOMAIN DEVICE_TYPE_BY_KEY) =>
                    cgen.network_clients[j].manufacturer \in ManufacturerNames

\* A finished call for MaxClients clients with no VLAN and a required
\* manufacturer that the device-type table does not have.
C25_Witness ==
    /\ cgen.pc = "done"
    /\ cgen.count = MaxClients
    /\ Len(cgen.network_clients) = MaxClients
    /\ cgen.vlans = <<>>
    /\ \E j \in DOMAIN cgen.required_mfrs : cgen.required_mfrs[j] \notin DOMAIN DEVICE_TYPE_BY_KEY

(***************************************************************************)
(* Claims about the seeding of a topology.                                 *)
(***************************************************************************)
\* The items of the network-level clients in the seeded table
StoredNetworkClients == SelectSeq(db.table, LAMBDA item : item.entity_type = ENTITY_NETWORK_CLIENT)

\* C28: seed_topology stores every network-level client under the network
\* it was generated for: the parent network id written to the secondary
\* index is the client's _network_id, also for a client whose
\* recentDeviceSerial is None and whose VLAN id occurs in other networks.
C28_StoredUnderOwnNetwork ==
    db.pc = "seeded" =>
        \A j \in DOMAIN StoredNetworkClients :
            /\ StoredNetworkClients[j].parent_type = ENTITY_NETWORK
            /\ StoredNetworkClients[j].parent_id = StoredNetworkClients[j].data._network_id
            /\ StoredNetworkClients[j].GSI1PK = db.topology_name \o "#network#" \o StoredNetworkClients[j].data._network_id

\* The part of C28 that seed_topology keeps: a client connected to a device
\* is stored under its own network, and a client without a device under
\* the first network of the topology that has a VLAN with the client's id.
C28_StoredUnderDeviceNetwork ==
    db.pc = "seeded" =>
        \A j \in DOMAIN StoredNetworkClients :
            /\ StoredNetworkClients[j].parent_type = ENTITY_NETWORK
            /\ StoredNetworkClients[j].data.recentDeviceSerial # None =>
                  StoredNetworkClients[j].parent_id = StoredNetworkClients[j].data._network_id
            /\ StoredNetworkClients[j].data.recentDeviceSerial = None =>
                  StoredNetworkClients[j].parent_id = "N_HQ001"

\* C29: seeding loses no generated client: the ids of the network-level
\* clients of a topology are distinct, so the de-duplication by (PK, SK)
\* discards none of them and the number of network_client items written
\* is stats.clients.
C29_NoClientLost ==
    db.pc = "seeded" =>
        /\ \A t \in ReturnedTopologies :
              Cardinality({ t.network_clients[j].id : j \in DOMAIN t.network_clients }) = Len(t.network_clients)
        /\ Len(StoredNetworkClients) = db.stats.clients

\* The part of C29 that seeding keeps: the table has one item per key, the
\* number of written items is the number of appended items less the
\* removed ones, and at most stats.clients network_client items are stored.
C29_OneItemPerKey ==
    db.pc = "seeded" =>
        /\ Cardinality({ <<db.table[j].PK, db.table[j].SK>> : j \in DOMAIN db.table }) = Len(db.table)
        /\ db.written = db.appended - db.removed
        /\ db.written = Len(db.table)
        /\ Len(StoredNetworkClients) <= db.stats.clients

(***************************************************************************)
(* SpecPaging: a caller that pages through GET /networks/{id}/clients.     *)
(* It asks for the first page, then for the page after the last client it  *)
(* received, until a page is empty.  The data table holds 0..MaxStored     *)
(* clients of the network in each topology; api is the caller.             *)
(***************************************************************************)
MaxStored == 5

PerPageTexts == {None, "-1", "0", "1", "2", "3", "1000"}

\* The seeded table with n network clients k1..kn instead of three.
PagingStore(n) ==
    [SeededStore EXCEPT !.data =
        SelectSeq(SeededStore.data, LAMBDA item : item.PK[2] # ENTITY_NETWORK_CLIENT)
        \o [j \in 1..n |-> ChildItem("hub_spoke", ENTITY_NETWORK_CLIENT, "k" \o ToString(j), [id |-> "k" \o ToString(j), recentDeviceSerial |-> "Q2AA-BBBB-CCCC"], ENTITY_NETWORK, "N_HQ001")]
        \o [j \in 1..n |-> ChildItem("mesh", ENTITY_NETWORK_CLIENT, "k" \o ToString(j), [id |-> "k" \o ToString(j), recentDeviceSerial |-> "Q2DD-EEEE-FFFF"], ENTITY_NETWORK, "N_DC001")]]

InitPaging ==
    /\ clock = ClockBase
    /\ \E n \in 0..MaxStored : db = PagingStore(n)
    /\ \E per_page \in PerPageTexts, network \in {<<"hub_spoke", "N_HQ001">>, <<"mesh", "N_DC001">>} :
          api = [pc |-> "paging", topology |-> network[1], network_id |-> network[2],
                 per_page |-> per_page, starting_after |-> None,
                 visited |-> <<>>, pages |-> 0, largest_page |-> 0]
    /\ dgen = Idle /\ cgen = Idle /\ asm = Idle /\ outcomes = <<>> /\ val = Idle

\* queryStringParameters of the caller's next request
PagingQuery(caller) ==
    (IF caller.per_page # None THEN [perPage |-> caller.per_page] ELSE EmptyDict)
    @@ (IF caller.starting_after # None THEN [startingAfter |-> caller.starting_after] ELSE EmptyDict)

\* One request of the caller and what it does with the page.
Page ==
    /\ api.pc = "paging"
    /\ \E handled \in {get_network_clients(db, api.topology, api.network_id, PagingQuery(api))} :
          /\ "response" \in DOMAIN handled
          /\ handled.response.statusCode = 200
          /\ \E page \in {handled.response.body.array} :
                api' = [api EXCEPT !.pc = IF page = <<>> THEN "done" ELSE "paging",
                                   !.starting_after = IF page = <<>> THEN @ ELSE page[Len(page)].id,
                                   !.visited = @ \o [j \in DOMAIN page |-> page[j].id],
                                   !.pages = @ + 1,
                                   !.largest_page = IF Len(page) > @ THEN Len(page) ELSE @]
    /\ UNCHANGED <<clock, dgen, cgen, asm, outcomes, val, db>>

NextPaging == Page

SpecPaging == InitPaging /\ [][NextPaging]_vars

(***************************************************************************)
(* Claims about paging.                                                    *)
(***************************************************************************)
\* The ids of the clients stored under the caller's network, in stored order
StoredIds ==
    Let(get_entities_by_parent(db, api.topology, ENTITY_NETWORK, api.network_id, ENTITY_NETWORK_CLIENT), LAMBDA clients :
    [j \in DOMAIN clients |-> clients[j].id])

\* perPage of the caller as a number, 1000 when it sends none
PerPageOf(caller) == IF caller.per_page = None THEN 1000 ELSE int(caller.per_page).v

\* The most clients a page of the caller may hold: perPage, and none for a
\* perPage below zero.
PageLimit(caller) == IF PerPageOf(caller) < 0 THEN 0 ELSE PerPageOf(caller)

\* C26: get_network_clients returns at most perPage clients, and paging by
\* startingAfter = the id of the last client of the previous page visits
\* every stored client exactly once, in stored order, and ends with an
\* empty page.
C26_PagingVisitsAll ==
    api.pc \in {"paging", "done"} =>
        /\ api.largest_page <= PageLimit(api)
        /\ Len(api.visited) <= Len(StoredIds)
        /\ api.visited = SubSeq(StoredIds, 1, Len(api.visited))
        /\ api.pc = "done" => api.visited = StoredIds

\* The part of C26 that the handler keeps: the same for every perPage >= 1
\* and for a request without perPage.
C26_PagingVisitsAllFromOne ==
    (api.pc \in {"paging", "done"} /\ PerPageOf(api) >= 1) =>
        /\ api.largest_page <= PageLimit(api)
        /\ Len(api.visited) <= Len(StoredIds)
        /\ api.visited = SubSeq(StoredIds, 1, Len(api.visited))
        /\ api.pc = "done" => api.visited = StoredIds

\* A walk over MaxStored clients in pages of two that has ended.
C26_Witness ==
    /\ api.pc = "done"
    /\ api.per_page = "2"
    /\ Len(api.visited) = MaxStored
    /\ api.pages = 4

(***************************************************************************)
(* Claims about the addresses of the clients of a network.                 *)
(***************************************************************************)
\* C27: within one network no two network-level clients have the same ip,
\* for every number of clients an assembler asks for, also for more than
\* 250 clients.
C27_DistinctIps ==
    cgen.pc # "idle" =>
        Cardinality({ cgen.network_clients[j].ip : j \in DOMAIN cgen.network_clients }) = Len(cgen.network_clients)

\* The part of C27 that the generator keeps: two clients of a network have
\* the same ip only if they are in the same VLAN and their indices differ
\* by a multiple of 250, so the first 250 clients have distinct addresses.
C27_DistinctIpsWithin250 ==
    cgen.pc # "idle" =>
        \A i, j \in DOMAIN cgen.network_clients :
            (i < j /\ cgen.network_clients[i].ip = cgen.network_clients[j].ip) =>
                /\ cgen.network_clients[i].vlan = cgen.network_clients[j].vlan
                /\ (j - i) % 250 = 0

(***************************************************************************)
(* SpecAdmin: concurrent POST /admin/topology requests.  Every request is  *)
(* its own invocation of admin.create_topology; the invocations share the  *)
(* config table and interleave at their calls of the DynamoDB client.      *)
(* api.requests holds the position, the body and the response of every     *)
(* request; db.puts is the list of the items put_item has written.         *)
(***************************************************************************)
MaxRequests == 2

Requests == 1..MaxRequests

\* str.isalnum for the characters of the model
AlnumCharSet == { CharAt(UpperAlpha \o LowerAlpha \o DecDigits, j) : j \in 1..62 }

isalnum(text) == Len(text) > 0 /\ \A i \in 1..Len(text) : CharAt(text, i) \in AlnumCharSet

\* DynamoDBClient.list_topologies: an exception of the client is logged and gives [].
list_topologies(store) == IF ~store.table_up THEN <<>> ELSE store.config.topologies

\* DynamoDBClient.register_topology: put_item writes the item of the name,
\* replacing the one the table has; an exception is logged and gives False.
register_topology(store, topology_name, description) ==
    IF ~store.table_up THEN [v |-> FALSE, store |-> store]
    ELSE [v |-> TRUE,
          store |-> [store EXCEPT !.config.topologies = IF topology_name \in Members(@) THEN @ ELSE Append(@, topology_name),
                                  !.puts = Append(@, [PK |-> "TOPOLOGY", SK |-> topology_name, description |-> description])]]

\* admin.create_topology from its entry to the check of the existing names
\* (lines 125-153): a response, or the name and description to register.
create_topology(store, body) ==
    IF body.kind = "none" THEN [response |-> Response(400, [errors |-> <<"Request body required">>])]
    ELSE IF body.kind = "invalid" THEN [response |-> Response(400, [errors |-> <<"Invalid JSON in request body">>])]
    ELSE Let([topology_name |-> Get(body.data, "name", None), description |-> Get(body.data, "description", "")], LAMBDA data :
         IF Not(data.topology_name)
         THEN [response |-> Response(400, [errors |-> <<"Topology 'name' is required">>])]
         ELSE IF ~isalnum(Remove(Remove(data.topology_name, "_"), "-"))
         THEN [response |-> Response(400, [errors |-> <<"Topology name must be alphanumeric with optional underscores/hyphens">>])]
         ELSE IF data.topology_name \in Members(list_topologies(store))
         THEN [response |-> Response(409, [errors |-> <<"Topology '" \o data.topology_name \o "' already exists">>])]
         ELSE [response |-> Null, topology_name |-> data.topology_name, description |-> data.description])

\* The response to the result of register_topology (lines 155-166).
create_topology_response(success, topology_name, description) ==
    IF success
    THEN Response(201, [message |-> "Topology '" \o topology_name \o "' created", name |-> topology_name, description |-> description])
    ELSE Response(500, [errors |-> <<"Failed to create topology">>])

AdminBodies ==
    { [kind |-> "none"], [kind |-> "invalid"],
      [kind |-> "object", data |-> [name |-> "lab", description |-> "Lab"]],
      [kind |-> "object", data |-> [name |-> "lab"]],
      [kind |-> "object", data |-> [description |-> "Lab"]],
      [kind |-> "object", data |-> [name |-> "lab 1"]],
      [kind |-> "object", data |-> [name |-> "hub_spoke"]] }

InitAdmin ==
    /\ clock = ClockBase
    /\ \E bodies \in [Requests -> AdminBodies] :
          api = [pc |-> "admin",
                 requests |-> [p \in Requests |-> [pc |-> "received", body |-> bodies[p], topology_name |-> None, description |-> None, response |-> Null]]]
    /\ db = [secrets_up |-> TRUE, secret |-> Secret, table_up |-> TRUE,
             config |-> [topologies |-> <<"hub_spoke", "mesh">>, active |-> "hub_spoke"],
             data |-> <<>>, puts |-> <<>>]
    /\ dgen = Idle /\ cgen = Idle /\ asm = Idle /\ outcomes = <<>> /\ val = Idle

\* A request runs up to its answer or up to the return of list_topologies.
CreateTopologyCheck ==
    /\ api.pc = "admin"
    /\ \E p \in Requests :
          /\ api.requests[p].pc = "received"
          /\ \E checked \in {create_topology(db, api.requests[p].body)} :
                api' = [api EXCEPT !.requests[p] =
                           IF checked.response # Null
                           THEN [@ EXCEPT !.pc = "done", !.response = checked.response]
                           ELSE [@ EXCEPT !.pc = "registering", !.topology_name = checked.topology_name, !.description = checked.description]]
    /\ UNCHANGED <<clock, dgen, cgen, asm, outcomes, val, db>>

\* A request calls register_topology and answers.
CreateTopologyRegister ==
    /\ api.pc = "admin"
    /\ \E p \in Requests :
          /\ api.requests[p].pc = "registering"
          /\ \E success \in {register_topology(db, api.requests[p].topology_name, api.requests[p].description)} :
                /\ db' = success.store
                /\ api' = [api EXCEPT !.requests[p] =
                              [@ EXCEPT !.pc = "done",
                                        !.response = create_topology_response(success.v, api.requests[p].topology_name, api.requests[p].description)]]
    /\ UNCHANGED <<clock, dgen, cgen, asm, outcomes, val>>

NextAdmin == CreateTopologyCheck \/ CreateTopologyRegister \/ TableAvailability

SpecAdmin == InitAdmin /\ [][NextAdmin]_vars

(***************************************************************************)
(* Claims about concurrent registrations.                                  *)
(***************************************************************************)
\* The requests that were answered with the status for the name
AnsweredWith(status, name) ==
    { p \in Requests : /\ api.requests[p].pc = "done"
                       /\ api.requests[p].response.statusCode = status
                       /\ api.requests[p].body.kind = "object"
                       /\ Get(api.requests[p].body.data, "name", None) = name }

\* The names of the valid requests
RequestedNames ==
    { api.requests[p].body.data.name : p \in { p \in Requests : api.requests[p].body.kind = "object" /\ "name" \in DOMAIN api.requests[p].body.data } }

\* C30: for any interleaving of concurrent create_topology requests with
\* the same name at most one is answered 201, every other one is answered
\* 409 (or 500 when the table failed it), and the name is never registered
\* twice.
C30_OneCreatedPerName ==
    api.pc = "admin" =>
        \A name \in RequestedNames :
            /\ Cardinality(AnsweredWith(201, name)) <= 1
            /\ isalnum(Remove(Remove(name, "_"), "-")) =>
                  \A p \in Requests :
                      (api.requests[p].pc = "done" /\ api.requests[p].body.kind = "object" /\ Get(api.requests[p].body.data, "name", None) = name)
                          => api.requests[p].response.statusCode \in {201, 409, 500}
            /\ Cardinality({ j \in DOMAIN db.puts : db.puts[j].SK = name }) <= 1

\* The part of C30 that the handler keeps: the config table has one item
\* per name, a request is answered 201 only after a put of its name, a
\* request answered 409 found the name in the table, and a name that was
\* in the table before the requests is never put again while the table
\* answers.
C30_OneItemPerName ==
    api.pc = "admin" =>
        /\ Cardinality(Members(db.config.topologies)) = Len(db.config.topologies)
        /\ \A p \in Requests :
              api.requests[p].pc = "done" =>
                  /\ api.requests[p].response.statusCode \in {201, 400, 409, 500}
                  /\ api.requests[p].response.statusCode = 201 =>
                        \E j \in DOMAIN db.puts : db.puts[j].SK = api.requests[p].topology_name
                  /\ api.requests[p].response.statusCode = 409 =>
                        api.requests[p].body.data.name \in Members(db.config.topologies)

====
